---------------------------- MODULE Spec2Model ----------------------------
(***************************************************************************)
(* Heuristic AI/human code classifier (aiDetection) and the GitHub         *)
(* repository pipeline (githubAnalyzer) modelled as state machines.        *)
(*                                                                         *)
(* Numbers.  Rule weights and heuristic increments are kept in tenths      *)
(* (0.6 is 6), the structure score in hundredths (0.15 is 15), and every   *)
(* confidence, percentage and mean is an exact fraction <<n, d>> in lowest *)
(* terms with d > 0.                                                       *)
(*                                                                         *)
(* Text.  A source text is the sequence of its lines (what split('\n')     *)
(* returns); a line is an index into Lines, a table of concrete lines.     *)
(* For every line the table records what each regular expression of the    *)
(* source does on it: the fields are named after the place that reads      *)
(* them.  spans[r] is the set of <<start, end>> pairs such that the        *)
(* regular expression of rule r matches the trimmed line starting at       *)
(* index start and the match ends at index end.                            *)
(***************************************************************************)
EXTENDS Integers, Sequences, FiniteSets, TLC

(***************************************************************************)
(* Exact fractions                                                         *)
(***************************************************************************)
RECURSIVE GCD(_, _)
GCD(a, b) == IF b = 0 THEN a ELSE GCD(b, a % b)

Frac(n, d) == LET g == GCD(n, d) IN IF g = 0 THEN <<0, 1>> ELSE <<n \div g, d \div g>>

FLess(a, b) == a[1] * b[2] < b[1] * a[2]

FLeq(a, b) == a[1] * b[2] <= b[1] * a[2]

FMax(a, b) == IF FLess(a, b) THEN b ELSE a

FMin(a, b) == IF FLess(b, a) THEN b ELSE a

FAdd(a, b) == Frac(a[1] * b[2] + b[1] * a[2], a[2] * b[2])

RECURSIVE FSum(_)
FSum(s) == IF s = <<>> THEN <<0, 1>> ELSE FAdd(Head(s), FSum(Tail(s)))

(***************************************************************************)
(* Pattern library                                                         *)
(***************************************************************************)
\* The 17 generic rules, in table order.  global is the g flag of the
\* regular expression: a g regular expression keeps lastIndex between calls
\* of test().
AI_PATTERNS ==
  << [id |-> 1,  weight |-> 9,  aiIndicator |-> TRUE,  global |-> TRUE,
      reason |-> "Section-based comments with dashes - signature of AI structure"],
     [id |-> 2,  weight |-> 10, aiIndicator |-> TRUE,  global |-> TRUE,
      reason |-> "Explicit AI generation comment"],
     [id |-> 3,  weight |-> 8,  aiIndicator |-> TRUE,  global |-> TRUE,
      reason |-> "Contains step-by-step comments typical of AI explanations"],
     [id |-> 4,  weight |-> 6,  aiIndicator |-> TRUE,  global |-> TRUE,
      reason |-> "Contains verbose explanatory comments typical of AI generation"],
     [id |-> 5,  weight |-> 7,  aiIndicator |-> TRUE,  global |-> TRUE,
      reason |-> "Contains structured error messages with examples"],
     [id |-> 6,  weight |-> 6,  aiIndicator |-> TRUE,  global |-> TRUE,
      reason |-> "try/catch with console output in CLI context - typical ChatGPT pattern"],
     [id |-> 7,  weight |-> 7,  aiIndicator |-> TRUE,  global |-> TRUE,
      reason |-> "Contains comprehensive input validation typical of AI first-draft code"],
     [id |-> 8,  weight |-> 8,  aiIndicator |-> TRUE,  global |-> TRUE,
      reason |-> "Polite, structured error messages with usage examples"],
     [id |-> 9,  weight |-> 6,  aiIndicator |-> TRUE,  global |-> TRUE,
      reason |-> "Uses overly descriptive variable names"],
     [id |-> 10, weight |-> 4,  aiIndicator |-> TRUE,  global |-> TRUE,
      reason |-> "Contains comprehensive switch statement with default case"],
     [id |-> 11, weight |-> 3,  aiIndicator |-> TRUE,  global |-> FALSE,
      reason |-> "Includes shebang line typical of AI-generated scripts"],
     [id |-> 12, weight |-> 6,  aiIndicator |-> FALSE, global |-> TRUE,
      reason |-> "Contains debug console.log statements"],
     [id |-> 13, weight |-> 7,  aiIndicator |-> FALSE, global |-> TRUE,
      reason |-> "Contains TODO/FIXME comments indicating human planning"],
     [id |-> 14, weight |-> 3,  aiIndicator |-> FALSE, global |-> TRUE,
      reason |-> "Contains short, terse comments typical of human code"],
     [id |-> 15, weight |-> 4,  aiIndicator |-> FALSE, global |-> TRUE,
      reason |-> "Uses abbreviated variable names common in human code"],
     [id |-> 16, weight |-> 5,  aiIndicator |-> FALSE, global |-> TRUE,
      reason |-> "Has inconsistent spacing typical of human editing"],
     [id |-> 17, weight |-> 2,  aiIndicator |-> FALSE, global |-> TRUE,
      reason |-> "Uses functional programming without extensive validation"] >>

\* The language-specific rules; a tag without an entry has no rules.
LANGUAGE_PATTERNS(language) ==
  CASE language = "javascript" ->
         << [id |-> 18, weight |-> 2, aiIndicator |-> FALSE, global |-> TRUE,
             reason |-> "Contains debug console.log statements"],
            [id |-> 19, weight |-> 1, aiIndicator |-> TRUE,  global |-> TRUE,
             reason |-> "Uses function declarations"] >>
    [] language = "python" ->
         << [id |-> 20, weight |-> 2, aiIndicator |-> FALSE, global |-> TRUE,
             reason |-> "Contains debug print statements"],
            [id |-> 21, weight |-> 1, aiIndicator |-> TRUE,  global |-> TRUE,
             reason |-> "Uses function definitions"] >>
    [] language = "typescript" ->
         << [id |-> 22, weight |-> 2, aiIndicator |-> TRUE,  global |-> TRUE,
             reason |-> "Contains explicit type annotations"] >>
    [] OTHER -> << >>

\* Identifiers of all rule regular expressions (17 generic + 5 language).
Rules == 1..22

(***************************************************************************)
(* The table of concrete lines                                             *)
(***************************************************************************)
\* Fields, each the outcome of one expression of the source on the line:
\*   blank     !line.trim()
\*   len       line.trim().length
\*   punct     content.match(/[{}();,]/)
\*   perfect   !content.match(/[^\w\s\(\)\[\]{};:,.<>!@#$%^&*+=|\\?/-]/)
\*   naming    content.match(/\b(foo|bar|baz|qux|quirky|magic|hack|wtf)\b/i)
\*   creative  creativePatterns.some(p => p.test(content))
\*   indent    length of line.match(/^\s*/)[0] (the table indents with spaces)
\*   aligned   line.match(/^\s*([\{\}\[\](),;]|\w+:\s*)/)
\*   messy     messyPatterns.some(p => p.test(line))
\*   comments  matches of /\/\*[\s\S]*?\*\/|\/\/.*$/gm in the line
\*   errTokens matches of /(try|catch|throw|Error|Exception)/g in the line
\*   valTokens matches of /(isNaN|\.length|args\.length|Missing.*argument)/g
\*   early     line.match(/(args\.length|Missing.*argument|isNaN|process\.exit)/)
\*   spans     per rule, the matches of its regular expression (see above)
Lines ==
  <<
  [ text |-> "", blank |-> TRUE, len |-> 0, punct |-> FALSE, perfect |-> TRUE,
    naming |-> FALSE, creative |-> FALSE, indent |-> 0, aligned |-> FALSE, messy |-> FALSE,
    comments |-> 0, errTokens |-> 0, valTokens |-> 0, early |-> FALSE,
    spans |-> [r \in Rules |-> {}] ],
  [ text |-> "   ", blank |-> TRUE, len |-> 0, punct |-> FALSE, perfect |-> TRUE,
    naming |-> FALSE, creative |-> FALSE, indent |-> 3, aligned |-> FALSE, messy |-> TRUE,
    comments |-> 0, errTokens |-> 0, valTokens |-> 0, early |-> FALSE,
    spans |-> [r \in Rules |-> {}] ],
  [ text |-> "const totalPrice = basePrice + taxAmount;", blank |-> FALSE, len |-> 41, punct |-> TRUE, perfect |-> TRUE,
    naming |-> FALSE, creative |-> FALSE, indent |-> 0, aligned |-> FALSE, messy |-> FALSE,
    comments |-> 0, errTokens |-> 0, valTokens |-> 0, early |-> FALSE,
    spans |-> [r \in Rules |-> {}] ],
  [ text |-> "// Step 1: Parse the input", blank |-> FALSE, len |-> 26, punct |-> FALSE, perfect |-> TRUE,
    naming |-> FALSE, creative |-> FALSE, indent |-> 0, aligned |-> FALSE, messy |-> FALSE,
    comments |-> 1, errTokens |-> 0, valTokens |-> 0, early |-> FALSE,
    spans |-> [r \in Rules |-> CASE r = 3 -> {<<0, 10>>} [] OTHER -> {}] ],
  [ text |-> "let foo = bar;", blank |-> FALSE, len |-> 14, punct |-> TRUE, perfect |-> TRUE,
    naming |-> TRUE, creative |-> TRUE, indent |-> 0, aligned |-> FALSE, messy |-> FALSE,
    comments |-> 0, errTokens |-> 0, valTokens |-> 0, early |-> FALSE,
    spans |-> [r \in Rules |-> {}] ],
  [ text |-> "return total;", blank |-> FALSE, len |-> 13, punct |-> TRUE, perfect |-> TRUE,
    naming |-> FALSE, creative |-> FALSE, indent |-> 0, aligned |-> FALSE, messy |-> FALSE,
    comments |-> 0, errTokens |-> 0, valTokens |-> 0, early |-> FALSE,
    spans |-> [r \in Rules |-> {}] ],
  [ text |-> "if (isNaN(value)) process.exit(1);", blank |-> FALSE, len |-> 34, punct |-> TRUE, perfect |-> TRUE,
    naming |-> FALSE, creative |-> FALSE, indent |-> 0, aligned |-> FALSE, messy |-> FALSE,
    comments |-> 0, errTokens |-> 0, valTokens |-> 1, early |-> TRUE,
    spans |-> [r \in Rules |-> CASE r = 7 -> {<<4, 10>>, <<18, 33>>} [] OTHER -> {}] ],
  [ text |-> "    console.log(value)", blank |-> FALSE, len |-> 18, punct |-> TRUE, perfect |-> TRUE,
    naming |-> FALSE, creative |-> TRUE, indent |-> 4, aligned |-> FALSE, messy |-> TRUE,
    comments |-> 0, errTokens |-> 0, valTokens |-> 0, early |-> FALSE,
    spans |-> [r \in Rules |-> CASE r = 12 -> {<<0, 12>>} [] r = 18 -> {<<0, 18>>} [] OTHER -> {}] ],
  [ text |-> "const n: number = 1;", blank |-> FALSE, len |-> 20, punct |-> TRUE, perfect |-> TRUE,
    naming |-> FALSE, creative |-> FALSE, indent |-> 0, aligned |-> FALSE, messy |-> FALSE,
    comments |-> 0, errTokens |-> 0, valTokens |-> 0, early |-> FALSE,
    spans |-> [r \in Rules |-> CASE r = 22 -> {<<7, 15>>} [] OTHER -> {}] ],
  [ text |-> "  x = y", blank |-> FALSE, len |-> 5, punct |-> FALSE, perfect |-> TRUE,
    naming |-> FALSE, creative |-> FALSE, indent |-> 2, aligned |-> FALSE, messy |-> FALSE,
    comments |-> 0, errTokens |-> 0, valTokens |-> 0, early |-> FALSE,
    spans |-> [r \in Rules |-> {}] ],
  [ text |-> "#!/usr/bin/env node", blank |-> FALSE, len |-> 19, punct |-> FALSE, perfect |-> TRUE,
    naming |-> FALSE, creative |-> FALSE, indent |-> 0, aligned |-> FALSE, messy |-> FALSE,
    comments |-> 0, errTokens |-> 0, valTokens |-> 0, early |-> FALSE,
    spans |-> [r \in Rules |-> CASE r = 11 -> {<<0, 2>>} [] OTHER -> {}] ],
  [ text |-> "#!/usr/bin/env foo --fast", blank |-> FALSE, len |-> 25, punct |-> FALSE, perfect |-> TRUE,
    naming |-> TRUE, creative |-> TRUE, indent |-> 0, aligned |-> FALSE, messy |-> FALSE,
    comments |-> 0, errTokens |-> 0, valTokens |-> 0, early |-> FALSE,
    spans |-> [r \in Rules |-> CASE r = 11 -> {<<0, 2>>} [] OTHER -> {}] ]
  >>

\* Indices of the table.
LineIds == 1..Len(Lines)

\* !line.trim(): the line is empty or whitespace only.
IsBlank(l) == Lines[l].blank

(***************************************************************************)
(* Line classifier                                                         *)
(***************************************************************************)
\* pattern.pattern.test(content) with the regular expression's lastIndex at
\* lastIdx.  A g regular expression searches from lastIndex, leaves lastIndex
\* at the end of the match it finds and resets it to 0 when it finds none;
\* one without g always searches from 0 and never moves lastIndex.
RegExpTest(pattern, l, lastIdx) ==
  LET from  == IF pattern.global THEN lastIdx ELSE 0
      cands == {sp \in Lines[l].spans[pattern.id] : sp[1] >= from}
      first == CHOOSE sp \in cands : \A o \in cands : sp[1] <= o[1]
  IN  IF from > Lines[l].len \/ cands = {}
      THEN [matched |-> FALSE, lastIndex |-> IF pattern.global THEN 0 ELSE lastIdx]
      ELSE [matched |-> TRUE,
            lastIndex |-> IF pattern.global THEN first[2] ELSE lastIdx]

\* One of the two `for (const pattern of ...)` loops of analyzeLine: acc
\* carries aiScore, humanScore, reasons and the lastIndex of every rule.  A
\* rule occurs once in its table and its test reads no other rule's state, so
\* the loop's result is the scores and reasons of the rules that match, in
\* table order, and the lastIndex every tested rule is left with.
RECURSIVE Weight(_, _)
Weight(hits, ai) ==
  IF hits = << >> THEN 0
  ELSE (IF Head(hits).aiIndicator = ai THEN Head(hits).weight ELSE 0)
       + Weight(Tail(hits), ai)

\* The rules of the table whose test succeeds, in table order.
Hits(patterns, l, li) ==
  SelectSeq(patterns, LAMBDA p : RegExpTest(p, l, li[p.id]).matched)

\* lastIndex of every rule after the table's tests.
Tested(patterns, l, li) ==
  [r \in {patterns[k].id : k \in 1..Len(patterns)} |->
     RegExpTest(CHOOSE p \in {patterns[k] : k \in 1..Len(patterns)} : p.id = r,
                l, li[r]).lastIndex] @@ li

\* The accumulators after the rules hits have fired.
Fired(acc, hits, li) ==
  [aiScore |-> acc.aiScore + Weight(hits, TRUE),
   humanScore |-> acc.humanScore + Weight(hits, FALSE),
   reasons |-> acc.reasons \o [k \in 1..Len(hits) |-> hits[k].reason],
   lastIndex |-> li]

ApplyPatterns(patterns, l, acc) ==
  Fired(acc, Hits(patterns, l, acc.lastIndex), Tested(patterns, l, acc.lastIndex))

\* "Line length analysis": +0.2 AI above 120 characters, else +0.1 Human
\* below 20 characters without structural punctuation.
LengthHeuristic(l, acc) ==
  IF Lines[l].len > 120
  THEN [acc EXCEPT !.aiScore = @ + 2,
          !.reasons = Append(@, "Very long line length typical of AI generation")]
  ELSE IF Lines[l].len < 20 /\ ~Lines[l].punct
  THEN [acc EXCEPT !.humanScore = @ + 1,
          !.reasons = Append(@, "Short, concise line suggests human writing")]
  ELSE acc

\* "Check for perfect syntax": +0.1 AI.
SyntaxHeuristic(l, acc) ==
  IF Lines[l].perfect /\ Lines[l].len > 30
  THEN [acc EXCEPT !.aiScore = @ + 1,
          !.reasons = Append(@, "Perfect syntax and structure")]
  ELSE acc

\* "Check for creative/quirky naming": +0.3 Human.
NamingHeuristic(l, acc) ==
  IF Lines[l].naming
  THEN [acc EXCEPT !.humanScore = @ + 3,
          !.reasons = Append(@, "Uses creative or placeholder naming typical of humans")]
  ELSE acc

\* Math.min(Math.max(confidence, 0.1), 0.95)
ClampNone(c) == c

Clamp(c) == FMin(FMax(c, <<1, 10>>), <<19, 20>>)

\* totalScore > 0 ? Math.max(aiScore, humanScore) / totalScore : 0.5, clamped
ConfidenceLesserShare(aiScore, humanScore) ==
  LET totalScore == aiScore + humanScore
      lesser == IF aiScore > humanScore THEN humanScore ELSE aiScore
  IN  Clamp(IF totalScore > 0 THEN Frac(lesser, totalScore) ELSE <<1, 2>>)

Confidence(aiScore, humanScore) ==
  LET totalScore == aiScore + humanScore
      larger == IF aiScore > humanScore THEN aiScore ELSE humanScore
  IN  Clamp(IF totalScore > 0 THEN Frac(larger, totalScore) ELSE <<1, 2>>)

\* The verdict of a blank line.
EmptyLine(l) ==
  [content |-> l, isAI |-> FALSE, confidence |-> <<1, 2>>,
   reasons |-> <<"Empty line - neutral">>]

\* The return statement of analyzeLine for the accumulators acc.
VerdictTieAI(l, acc) ==
  [analysis |->
     [content |-> l,
      isAI |-> acc.aiScore >= acc.humanScore,
      confidence |-> Confidence(acc.aiScore, acc.humanScore),
      reasons |-> IF acc.reasons = << >>
                  THEN <<"No significant patterns detected - neutral classification">>
                  ELSE acc.reasons],
   lastIndex |-> acc.lastIndex]

Verdict(l, acc) ==
  [analysis |->
     [content |-> l,
      isAI |-> acc.aiScore > acc.humanScore,
      confidence |-> Confidence(acc.aiScore, acc.humanScore),
      reasons |-> IF acc.reasons = << >>
                  THEN <<"No significant patterns detected - neutral classification">>
                  ELSE acc.reasons],
   lastIndex |-> acc.lastIndex]

\* The accumulators of analyzeLine for a non-blank line once the two rule
\* loops and the three heuristics have run, with the rule tables' lastIndex
\* values li at the start.
Accumulate(l, language, li) ==
  NamingHeuristic(l, SyntaxHeuristic(l, LengthHeuristic(l,
    ApplyPatterns(LANGUAGE_PATTERNS(language), l,
      ApplyPatterns(AI_PATTERNS, l,
        [aiScore |-> 0, humanScore |-> 0, reasons |-> << >>,
         lastIndex |-> li])))))

\* analyzeLine(line, lineNumber, language) run with the rule tables'
\* lastIndex values li: the LineAnalysis and the lastIndex values it leaves.
\* lineNumber is not read by the source.
AnalyzeLine(l, language, li) ==
  IF IsBlank(l) THEN [analysis |-> EmptyLine(l), lastIndex |-> li]
  ELSE Verdict(l, Accumulate(l, language, li))

(***************************************************************************)
(* Structural scorer                                                       *)
(***************************************************************************)
\* Sum of a numeric field, and number of lines with a boolean field set, over
\* a sequence of lines: the .length of a match() result or of a filter().
RECURSIVE SumField(_, _)
SumField(s, f) == IF s = << >> THEN 0 ELSE Lines[Head(s)][f] + SumField(Tail(s), f)

RECURSIVE CountField(_, _)
CountField(s, f) ==
  IF s = << >> THEN 0
  ELSE (IF Lines[Head(s)][f] THEN 1 ELSE 0) + CountField(Tail(s), f)

\* The indentation loop: indentPattern is the first non-empty indent seen; a
\* line is consistent when its indent equals indentPattern, is empty, or
\* starts with indentPattern (0 stands for the unset pattern '').
RECURSIVE ConsistentIndentation(_, _)
ConsistentIndentation(rest, indentPattern) ==
  IF rest = << >> THEN 0
  ELSE LET indent == Lines[Head(rest)].indent
           pat == IF indentPattern = 0 /\ indent > 0 THEN indent ELSE indentPattern
       IN  (IF indent = pat \/ indent = 0 \/ indent >= pat THEN 1 ELSE 0)
           + ConsistentIndentation(Tail(rest), pat)

\* analyzeCodeStructure(code), in hundredths (score is the source's aiScore).
AnalyzeCodeStructure(code) ==
  LET lines == SelectSeq(code, LAMBDA l : ~IsBlank(l))
      n == Len(lines)
      aligned == CountField(lines, "aligned")
      messyLines == CountField(lines, "messy")
      commentLines == SumField(code, "comments")
      errorHandlingCount == SumField(code, "errTokens")
      validationCount == SumField(code, "valTokens")
      earlyLines == SubSeq(lines, 1, IF n < 20 THEN n ELSE 20)
      score ==
          (IF n > 0 /\ 10 * ConsistentIndentation(lines, 0) > 9 * n THEN 30 ELSE 0)
        + (IF n > 0 /\ 10 * aligned > 4 * n THEN 20 ELSE 0)
        + (IF messyLines = 0 /\ n > 10 THEN 15 ELSE 0)
        + (IF n > 0 /\ 10 * commentLines > 3 * n THEN 20 ELSE 0)
        + (IF 10 * (errorHandlingCount + validationCount) > n THEN 25 ELSE 0)
        + (IF \E i \in 1..Len(earlyLines) : Lines[earlyLines[i]].early THEN 20 ELSE 0)
  IN  IF score < 100 THEN score ELSE 100

(***************************************************************************)
(* Contextual smoother                                                     *)
(***************************************************************************)
\* isCreativeHumanCode(line): its regular expressions are created anew on
\* every call, so it keeps no lastIndex.
IsCreativeHumanCodeNever(l) == FALSE

IsCreativeHumanCode(l) == Lines[l].creative

\* The body of the sandwich rule's innermost if.
SandwichFlipAssign(entry) ==
  [entry EXCEPT !.isAI = TRUE,
               !.confidence = <<7, 10>>,
               !.reasons = Append(@, "Line sandwiched between AI-generated code blocks")]

SandwichFlip(entry) ==
  [entry EXCEPT !.isAI = TRUE,
               !.confidence = FMax(@, <<7, 10>>),
               !.reasons = Append(@, "Line sandwiched between AI-generated code blocks")]

\* The first loop of applyContextualAnalysis from (1-based) position i on:
\* the source's i runs over 1 .. length - 2, here 2 .. Len - 1, and reads the
\* neighbours from the array it is rewriting.
RECURSIVE SandwichPass(_, _)
\* As SandwichPass, flipping a line whenever the entry before it is AI.
SandwichPassPrevOnly(lineAnalysis, i) ==
  IF i > Len(lineAnalysis) - 1 THEN lineAnalysis
  ELSE LET currentLine == lineAnalysis[i]
           prevLine == lineAnalysis[i - 1]
       IN  IF /\ ~IsBlank(currentLine.content)
              /\ ~currentLine.isAI /\ prevLine.isAI
              /\ ~IsCreativeHumanCode(currentLine.content)
           THEN SandwichPass([lineAnalysis EXCEPT ![i] = SandwichFlip(currentLine)], i + 1)
           ELSE SandwichPass(lineAnalysis, i + 1)

SandwichPass(lineAnalysis, i) ==
  IF i > Len(lineAnalysis) - 1 THEN lineAnalysis
  ELSE LET currentLine == lineAnalysis[i]
           prevLine == lineAnalysis[i - 1]
           nextLine == lineAnalysis[i + 1]
       IN  IF /\ ~IsBlank(currentLine.content)
              /\ ~currentLine.isAI /\ prevLine.isAI /\ nextLine.isAI
              /\ ~IsCreativeHumanCode(currentLine.content)
           THEN SandwichPass([lineAnalysis EXCEPT ![i] = SandwichFlip(currentLine)], i + 1)
           ELSE SandwichPass(lineAnalysis, i + 1)

\* The body of `if (aiContinues)`.
BlockFlip(entry) ==
  [entry EXCEPT !.isAI = TRUE,
               !.confidence = FMax(@, <<3, 5>>),
               !.reasons = Append(@, "Part of extended AI-generated code block")]

\* The look-ahead loop: j runs over i + 1 .. min(i + 3, length) - 1.
AiContinuesThree(lineAnalysis, i) ==
  \E j \in (i + 1)..(IF i + 3 < Len(lineAnalysis) THEN i + 3 ELSE Len(lineAnalysis)) :
     ~IsBlank(lineAnalysis[j].content) /\ lineAnalysis[j].isAI

AiContinues(lineAnalysis, i) ==
  \E j \in (i + 1)..(IF i + 2 < Len(lineAnalysis) THEN i + 2 ELSE Len(lineAnalysis)) :
     ~IsBlank(lineAnalysis[j].content) /\ lineAnalysis[j].isAI

\* The second loop of applyContextualAnalysis from position i on.
RECURSIVE BlockPass(_, _, _)
BlockPass(lineAnalysis, i, consecutiveAICount) ==
  IF i > Len(lineAnalysis) THEN lineAnalysis
  ELSE LET line == lineAnalysis[i]
       IN  IF IsBlank(line.content) THEN BlockPass(lineAnalysis, i + 1, 0)
           ELSE IF line.isAI THEN BlockPass(lineAnalysis, i + 1, consecutiveAICount + 1)
           ELSE IF /\ consecutiveAICount >= 3
                   /\ ~IsCreativeHumanCode(line.content)
                   /\ AiContinues(lineAnalysis, i)
           THEN BlockPass([lineAnalysis EXCEPT ![i] = BlockFlip(line)], i + 1, 0)
           ELSE BlockPass(lineAnalysis, i + 1, 0)

\* applyContextualAnalysis(lineAnalysis): the array after both loops.
ApplyContextualAnalysisBlockFirst(lineAnalysis) ==
  SandwichPass(BlockPass(lineAnalysis, 1, 0), 2)

ApplyContextualAnalysis(lineAnalysis) ==
  BlockPass(SandwichPass(lineAnalysis, 2), 1, 0)

(***************************************************************************)
(* analyzeCode                                                             *)
(***************************************************************************)
\* "Adjust confidence based on overall structure".
AdjustConfidenceFromHalf(analysis, bias) ==
  IF bias >= 50 /\ analysis.isAI
  THEN [analysis EXCEPT !.confidence = FMin(FAdd(@, <<1, 10>>), <<19, 20>>)]
  ELSE analysis

AdjustConfidence(analysis, bias) ==
  IF bias > 50 /\ analysis.isAI
  THEN [analysis EXCEPT !.confidence = FMin(FAdd(@, <<1, 10>>), <<19, 20>>)]
  ELSE analysis

\* One iteration of the `for` loop of analyzeCode: step is what analyzeLine
\* returned for the line, before what the earlier iterations left.
Push(before, step, bias) ==
  [raw |-> Append(before.raw, step.analysis),
   lineAnalysis |-> Append(before.lineAnalysis, AdjustConfidence(step.analysis, bias)),
   lastIndex |-> step.lastIndex]

Iterate(before, l, language, bias) ==
  Push(before, AnalyzeLine(l, language, before.lastIndex), bias)

\* The `for` loop of analyzeCode after its first k iterations, started with
\* lastIndex values start: raw collects what analyzeLine returned, lineAnalysis
\* what was pushed, lastIndex is what the k calls of analyzeLine left.
RECURSIVE AnalyzeLines(_, _, _, _, _)
AnalyzeLines(code, k, language, bias, start) ==
  IF k = 0 THEN [raw |-> << >>, lineAnalysis |-> << >>, lastIndex |-> start]
  ELSE Iterate(AnalyzeLines(code, k - 1, language, bias, start), code[k], language, bias)

\* "Calculate statistics": the AnalysisResult built from the final array.
HumanLinesAll(all, nonEmpty, ai) == Len(SelectSeq(all, LAMBDA a : ~a.isAI))

\* nonEmptyLines.length - aiLines
HumanLines(all, nonEmpty, ai) == Len(nonEmpty) - ai

RECURSIVE Confidences(_)
Confidences(s) ==
  IF s = << >> THEN << >> ELSE <<Head(s).confidence>> \o Confidences(Tail(s))

Statistics(lineAnalysis) ==
  LET nonEmptyLines == SelectSeq(lineAnalysis, LAMBDA a : ~IsBlank(a.content))
      aiLines == Len(SelectSeq(nonEmptyLines, LAMBDA a : a.isAI))
      humanLines == HumanLines(lineAnalysis, nonEmptyLines, aiLines)
      totalLines == Len(nonEmptyLines)
  IN  [totalLines |-> totalLines,
       aiLines |-> aiLines,
       humanLines |-> humanLines,
       aiPercentage |-> IF totalLines > 0 THEN Frac(aiLines * 100, totalLines) ELSE <<0, 1>>,
       humanPercentage |->
         IF totalLines > 0 THEN Frac(humanLines * 100, totalLines) ELSE <<0, 1>>,
       overallConfidence |->
         IF totalLines > 0
         THEN LET total == FSum(Confidences(nonEmptyLines))
              IN  Frac(total[1], total[2] * totalLines)
         ELSE <<1, 2>>,
       lineAnalysis |-> lineAnalysis]

\* What analyzeCode returns and leaves once its loop has run: result is the
\* AnalysisResult; raw (analyzeLine's outputs) and classified (the array
\* handed to applyContextualAnalysis) are the intermediate arrays; lastIndex
\* is what the call leaves in the rule tables.
Analyzed(structureScore, lines) ==
  [structureScore |-> structureScore,
   raw |-> lines.raw,
   classified |-> lines.lineAnalysis,
   lastIndex |-> lines.lastIndex,
   result |-> Statistics(ApplyContextualAnalysis(lines.lineAnalysis))]

\* analyzeCode from the structure score on.
AnalyzeScored(code, language, li, structureScore) ==
  Analyzed(structureScore, AnalyzeLines(code, Len(code), language, structureScore, li))

\* analyzeCode(code, language) run with lastIndex values li.  The timer the
\* call awaits first touches no state.
AnalyzeCode(code, language, li) ==
  AnalyzeScored(code, language, li, AnalyzeCodeStructure(code))

(***************************************************************************)
(* Repository mode: file handles                                           *)
(***************************************************************************)
\* Entries tabulates the GitHub contents of four repositories, one row per
\* item in listing order.  parent is the row of the enclosing directory (0
\* at the root); download_url says whether the item carries one.  The other
\* fields are the outcomes of the source's string tests on the path:
\*   ext          filePath.toLowerCase().match(/\.[^.]*$/)?.[0]  ("" if none)
\*   excluded     some regular expression of excludePatterns tests true
\*   boilerplate  the "boilerplate files in src folder" condition
\*   pathSkip     dirPath includes '/node_modules/', '/components/ui/',
\*                '/.', '/dist/' or '/build/'
\*   marker       the entry of filesToCheck the item's name or path equals
\*   structure    the entries of lovableFiles (1..5) the path includes
\*   uiComponent  the path includes 'src/components/ui/'
\*   entryPoint   the name is main or index with extension js, ts, jsx or
\*                tsx, or App with one of them (the names the "Common
\*                boilerplate files" patterns are written for)
\*   hidden       the name begins with a dot
\*   uiDirectory  the path is, or ends with, components/ui
\* Urls tabulates repositoryUrl.match(/github\.com\/([^\/]+)\/([^\/]+)/):
\* urlMatch is whether it matches and repo is "owner/repo".
Entries == <<
  [repo |-> "acme/app", path |-> "CHANGELOG.md", name |-> "CHANGELOG.md", parent |-> 0,
   type |-> "file", size |-> 300, download_url |-> TRUE, ext |-> ".md",
   excluded |-> TRUE, boilerplate |-> FALSE, pathSkip |-> FALSE,
   marker |-> "", structure |-> {}, uiComponent |-> FALSE, entryPoint |-> FALSE,
   hidden |-> FALSE, uiDirectory |-> FALSE],
  [repo |-> "acme/app", path |-> "main.py", name |-> "main.py", parent |-> 0,
   type |-> "file", size |-> 200, download_url |-> TRUE, ext |-> ".py",
   excluded |-> FALSE, boilerplate |-> FALSE, pathSkip |-> FALSE,
   marker |-> "", structure |-> {}, uiComponent |-> FALSE, entryPoint |-> FALSE,
   hidden |-> FALSE, uiDirectory |-> FALSE],
  [repo |-> "acme/app", path |-> "node_modules", name |-> "node_modules", parent |-> 0,
   type |-> "dir", size |-> 0, download_url |-> FALSE, ext |-> "",
   excluded |-> FALSE, boilerplate |-> FALSE, pathSkip |-> FALSE,
   marker |-> "", structure |-> {}, uiComponent |-> FALSE, entryPoint |-> FALSE,
   hidden |-> FALSE, uiDirectory |-> FALSE],
  [repo |-> "acme/app", path |-> "node_modules/dep.js", name |-> "dep.js", parent |-> 3,
   type |-> "file", size |-> 90, download_url |-> TRUE, ext |-> ".js",
   excluded |-> TRUE, boilerplate |-> FALSE, pathSkip |-> FALSE,
   marker |-> "", structure |-> {}, uiComponent |-> FALSE, entryPoint |-> FALSE,
   hidden |-> FALSE, uiDirectory |-> FALSE],
  [repo |-> "acme/app", path |-> "src", name |-> "src", parent |-> 0,
   type |-> "dir", size |-> 0, download_url |-> FALSE, ext |-> "",
   excluded |-> FALSE, boilerplate |-> FALSE, pathSkip |-> FALSE,
   marker |-> "", structure |-> {}, uiComponent |-> FALSE, entryPoint |-> FALSE,
   hidden |-> FALSE, uiDirectory |-> FALSE],
  [repo |-> "acme/app", path |-> "src/api.js", name |-> "api.js", parent |-> 5,
   type |-> "file", size |-> 150, download_url |-> TRUE, ext |-> ".js",
   excluded |-> FALSE, boilerplate |-> FALSE, pathSkip |-> FALSE,
   marker |-> "", structure |-> {}, uiComponent |-> FALSE, entryPoint |-> FALSE,
   hidden |-> FALSE, uiDirectory |-> FALSE],
  [repo |-> "acme/app", path |-> "src/empty.ts", name |-> "empty.ts", parent |-> 5,
   type |-> "file", size |-> 0, download_url |-> TRUE, ext |-> ".ts",
   excluded |-> FALSE, boilerplate |-> FALSE, pathSkip |-> FALSE,
   marker |-> "", structure |-> {}, uiComponent |-> FALSE, entryPoint |-> FALSE,
   hidden |-> FALSE, uiDirectory |-> FALSE],
  [repo |-> "acme/app", path |-> "src/index.ts", name |-> "index.ts", parent |-> 5,
   type |-> "file", size |-> 60, download_url |-> TRUE, ext |-> ".ts",
   excluded |-> TRUE, boilerplate |-> TRUE, pathSkip |-> FALSE,
   marker |-> "", structure |-> {}, uiComponent |-> FALSE, entryPoint |-> TRUE,
   hidden |-> FALSE, uiDirectory |-> FALSE],
  [repo |-> "acme/app", path |-> "src/big.ts", name |-> "big.ts", parent |-> 5,
   type |-> "file", size |-> 2000000, download_url |-> TRUE, ext |-> ".ts",
   excluded |-> FALSE, boilerplate |-> FALSE, pathSkip |-> FALSE,
   marker |-> "", structure |-> {}, uiComponent |-> FALSE, entryPoint |-> FALSE,
   hidden |-> FALSE, uiDirectory |-> FALSE],
  [repo |-> "acme/app", path |-> "src/components", name |-> "components", parent |-> 5,
   type |-> "dir", size |-> 0, download_url |-> FALSE, ext |-> "",
   excluded |-> FALSE, boilerplate |-> FALSE, pathSkip |-> FALSE,
   marker |-> "", structure |-> {}, uiComponent |-> FALSE, entryPoint |-> FALSE,
   hidden |-> FALSE, uiDirectory |-> FALSE],
  [repo |-> "acme/app", path |-> "src/components/ui", name |-> "ui", parent |-> 10,
   type |-> "dir", size |-> 0, download_url |-> FALSE, ext |-> "",
   excluded |-> FALSE, boilerplate |-> FALSE, pathSkip |-> FALSE,
   marker |-> "", structure |-> {}, uiComponent |-> FALSE, entryPoint |-> FALSE,
   hidden |-> FALSE, uiDirectory |-> TRUE],
  [repo |-> "acme/app", path |-> "src/components/ui/button.tsx", name |-> "button.tsx", parent |-> 11,
   type |-> "file", size |-> 400, download_url |-> TRUE, ext |-> ".tsx",
   excluded |-> TRUE, boilerplate |-> FALSE, pathSkip |-> TRUE,
   marker |-> "", structure |-> {3}, uiComponent |-> TRUE, entryPoint |-> FALSE,
   hidden |-> FALSE, uiDirectory |-> FALSE],
  [repo |-> "acme/app", path |-> "src/components/ui/deep", name |-> "deep", parent |-> 11,
   type |-> "dir", size |-> 0, download_url |-> FALSE, ext |-> "",
   excluded |-> TRUE, boilerplate |-> FALSE, pathSkip |-> TRUE,
   marker |-> "", structure |-> {3}, uiComponent |-> TRUE, entryPoint |-> FALSE,
   hidden |-> FALSE, uiDirectory |-> FALSE],
  [repo |-> "acme/app", path |-> "src/components/ui/deep/more.ts", name |-> "more.ts", parent |-> 13,
   type |-> "file", size |-> 70, download_url |-> TRUE, ext |-> ".ts",
   excluded |-> TRUE, boilerplate |-> FALSE, pathSkip |-> TRUE,
   marker |-> "", structure |-> {3}, uiComponent |-> TRUE, entryPoint |-> FALSE,
   hidden |-> FALSE, uiDirectory |-> FALSE],
  [repo |-> "acme/app", path |-> ".config", name |-> ".config", parent |-> 0,
   type |-> "dir", size |-> 0, download_url |-> FALSE, ext |-> ".config",
   excluded |-> FALSE, boilerplate |-> FALSE, pathSkip |-> FALSE,
   marker |-> "", structure |-> {}, uiComponent |-> FALSE, entryPoint |-> FALSE,
   hidden |-> TRUE, uiDirectory |-> FALSE],
  [repo |-> "acme/app", path |-> ".config/notes.txt", name |-> "notes.txt", parent |-> 15,
   type |-> "file", size |-> 10, download_url |-> TRUE, ext |-> ".txt",
   excluded |-> FALSE, boilerplate |-> FALSE, pathSkip |-> FALSE,
   marker |-> "", structure |-> {}, uiComponent |-> FALSE, entryPoint |-> FALSE,
   hidden |-> FALSE, uiDirectory |-> FALSE],
  [repo |-> "acme/docs", path |-> "README.md", name |-> "README.md", parent |-> 0,
   type |-> "file", size |-> 500, download_url |-> TRUE, ext |-> ".md",
   excluded |-> TRUE, boilerplate |-> FALSE, pathSkip |-> FALSE,
   marker |-> "README.md", structure |-> {}, uiComponent |-> FALSE, entryPoint |-> FALSE,
   hidden |-> FALSE, uiDirectory |-> FALSE],
  [repo |-> "acme/docs", path |-> "package.json", name |-> "package.json", parent |-> 0,
   type |-> "file", size |-> 120, download_url |-> TRUE, ext |-> ".json",
   excluded |-> TRUE, boilerplate |-> FALSE, pathSkip |-> FALSE,
   marker |-> "package.json", structure |-> {}, uiComponent |-> FALSE, entryPoint |-> FALSE,
   hidden |-> FALSE, uiDirectory |-> FALSE],
  [repo |-> "acme/docs", path |-> "docs", name |-> "docs", parent |-> 0,
   type |-> "dir", size |-> 0, download_url |-> FALSE, ext |-> "",
   excluded |-> FALSE, boilerplate |-> FALSE, pathSkip |-> FALSE,
   marker |-> "", structure |-> {}, uiComponent |-> FALSE, entryPoint |-> FALSE,
   hidden |-> FALSE, uiDirectory |-> FALSE],
  [repo |-> "acme/docs", path |-> "docs/guide.md", name |-> "guide.md", parent |-> 19,
   type |-> "file", size |-> 900, download_url |-> TRUE, ext |-> ".md",
   excluded |-> TRUE, boilerplate |-> FALSE, pathSkip |-> FALSE,
   marker |-> "", structure |-> {}, uiComponent |-> FALSE, entryPoint |-> FALSE,
   hidden |-> FALSE, uiDirectory |-> FALSE],
  [repo |-> "acme/docs", path |-> "docs/nolink.py", name |-> "nolink.py", parent |-> 19,
   type |-> "file", size |-> 40, download_url |-> FALSE, ext |-> ".py",
   excluded |-> FALSE, boilerplate |-> FALSE, pathSkip |-> FALSE,
   marker |-> "", structure |-> {}, uiComponent |-> FALSE, entryPoint |-> FALSE,
   hidden |-> FALSE, uiDirectory |-> FALSE],
  [repo |-> "acme/app", path |-> "node_modules/pkg", name |-> "pkg", parent |-> 3,
   type |-> "dir", size |-> 0, download_url |-> FALSE, ext |-> "",
   excluded |-> TRUE, boilerplate |-> FALSE, pathSkip |-> FALSE,
   marker |-> "", structure |-> {}, uiComponent |-> FALSE, entryPoint |-> FALSE,
   hidden |-> FALSE, uiDirectory |-> FALSE],
  [repo |-> "acme/app", path |-> "node_modules/pkg/index.js", name |-> "index.js", parent |-> 22,
   type |-> "file", size |-> 80, download_url |-> TRUE, ext |-> ".js",
   excluded |-> TRUE, boilerplate |-> FALSE, pathSkip |-> FALSE,
   marker |-> "", structure |-> {}, uiComponent |-> FALSE, entryPoint |-> TRUE,
   hidden |-> FALSE, uiDirectory |-> FALSE],
  [repo |-> "acme/app", path |-> "src/tmp", name |-> "tmp", parent |-> 5,
   type |-> "dir", size |-> 0, download_url |-> FALSE, ext |-> "",
   excluded |-> FALSE, boilerplate |-> FALSE, pathSkip |-> FALSE,
   marker |-> "", structure |-> {}, uiComponent |-> FALSE, entryPoint |-> FALSE,
   hidden |-> FALSE, uiDirectory |-> FALSE],
  [repo |-> "acme/app", path |-> "src/tmp/scratch.js", name |-> "scratch.js", parent |-> 24,
   type |-> "file", size |-> 50, download_url |-> TRUE, ext |-> ".js",
   excluded |-> FALSE, boilerplate |-> FALSE, pathSkip |-> FALSE,
   marker |-> "", structure |-> {}, uiComponent |-> FALSE, entryPoint |-> FALSE,
   hidden |-> FALSE, uiDirectory |-> FALSE],
  [repo |-> "acme/lib", path |-> "README.md", name |-> "README.md", parent |-> 0,
   type |-> "file", size |-> 100, download_url |-> TRUE, ext |-> ".md",
   excluded |-> TRUE, boilerplate |-> FALSE, pathSkip |-> FALSE,
   marker |-> "README.md", structure |-> {}, uiComponent |-> FALSE, entryPoint |-> FALSE,
   hidden |-> FALSE, uiDirectory |-> FALSE],
  [repo |-> "acme/lib", path |-> "src", name |-> "src", parent |-> 0,
   type |-> "dir", size |-> 0, download_url |-> FALSE, ext |-> "",
   excluded |-> FALSE, boilerplate |-> FALSE, pathSkip |-> FALSE,
   marker |-> "", structure |-> {}, uiComponent |-> FALSE, entryPoint |-> FALSE,
   hidden |-> FALSE, uiDirectory |-> FALSE],
  [repo |-> "acme/lib", path |-> "src/components", name |-> "components", parent |-> 27,
   type |-> "dir", size |-> 0, download_url |-> FALSE, ext |-> "",
   excluded |-> FALSE, boilerplate |-> FALSE, pathSkip |-> FALSE,
   marker |-> "", structure |-> {}, uiComponent |-> FALSE, entryPoint |-> FALSE,
   hidden |-> FALSE, uiDirectory |-> FALSE],
  [repo |-> "acme/lib", path |-> "src/components/ui", name |-> "ui", parent |-> 28,
   type |-> "dir", size |-> 0, download_url |-> FALSE, ext |-> "",
   excluded |-> FALSE, boilerplate |-> FALSE, pathSkip |-> FALSE,
   marker |-> "", structure |-> {}, uiComponent |-> FALSE, entryPoint |-> FALSE,
   hidden |-> FALSE, uiDirectory |-> TRUE],
  [repo |-> "acme/lib", path |-> "src/components/ui/button.tsx", name |-> "button.tsx", parent |-> 29,
   type |-> "file", size |-> 400, download_url |-> TRUE, ext |-> ".tsx",
   excluded |-> TRUE, boilerplate |-> FALSE, pathSkip |-> TRUE,
   marker |-> "", structure |-> {3}, uiComponent |-> TRUE, entryPoint |-> FALSE,
   hidden |-> FALSE, uiDirectory |-> FALSE],
  [repo |-> "acme/lib", path |-> "src/index.ts", name |-> "index.ts", parent |-> 27,
   type |-> "file", size |-> 60, download_url |-> TRUE, ext |-> ".ts",
   excluded |-> TRUE, boilerplate |-> TRUE, pathSkip |-> FALSE,
   marker |-> "", structure |-> {}, uiComponent |-> FALSE, entryPoint |-> TRUE,
   hidden |-> FALSE, uiDirectory |-> FALSE],
  [repo |-> "acme/lib", path |-> "src/utils", name |-> "utils", parent |-> 27,
   type |-> "dir", size |-> 0, download_url |-> FALSE, ext |-> "",
   excluded |-> FALSE, boilerplate |-> FALSE, pathSkip |-> FALSE,
   marker |-> "", structure |-> {}, uiComponent |-> FALSE, entryPoint |-> FALSE,
   hidden |-> FALSE, uiDirectory |-> FALSE],
  [repo |-> "acme/lib", path |-> "src/utils/helpers.ts", name |-> "helpers.ts", parent |-> 32,
   type |-> "file", size |-> 700, download_url |-> TRUE, ext |-> ".ts",
   excluded |-> FALSE, boilerplate |-> FALSE, pathSkip |-> FALSE,
   marker |-> "", structure |-> {}, uiComponent |-> FALSE, entryPoint |-> FALSE,
   hidden |-> FALSE, uiDirectory |-> FALSE],
  [repo |-> "acme/lib", path |-> "package.json", name |-> "package.json", parent |-> 0,
   type |-> "file", size |-> 220, download_url |-> TRUE, ext |-> ".json",
   excluded |-> TRUE, boilerplate |-> FALSE, pathSkip |-> FALSE,
   marker |-> "package.json", structure |-> {}, uiComponent |-> FALSE, entryPoint |-> FALSE,
   hidden |-> FALSE, uiDirectory |-> FALSE],
  [repo |-> "acme/lib", path |-> "src/utils/blank.ts", name |-> "blank.ts", parent |-> 32,
   type |-> "file", size |-> 0, download_url |-> TRUE, ext |-> ".ts",
   excluded |-> FALSE, boilerplate |-> FALSE, pathSkip |-> FALSE,
   marker |-> "", structure |-> {}, uiComponent |-> FALSE, entryPoint |-> FALSE,
   hidden |-> FALSE, uiDirectory |-> FALSE],
  [repo |-> "acme/deep", path |-> "index.ts", name |-> "index.ts", parent |-> 0,
   type |-> "file", size |-> 120, download_url |-> TRUE, ext |-> ".ts",
   excluded |-> FALSE, boilerplate |-> FALSE, pathSkip |-> FALSE,
   marker |-> "", structure |-> {}, uiComponent |-> FALSE, entryPoint |-> TRUE,
   hidden |-> FALSE, uiDirectory |-> FALSE],
  [repo |-> "acme/deep", path |-> "App.tsx", name |-> "App.tsx", parent |-> 0,
   type |-> "file", size |-> 130, download_url |-> TRUE, ext |-> ".tsx",
   excluded |-> TRUE, boilerplate |-> FALSE, pathSkip |-> FALSE,
   marker |-> "", structure |-> {}, uiComponent |-> FALSE, entryPoint |-> TRUE,
   hidden |-> FALSE, uiDirectory |-> FALSE],
  [repo |-> "acme/deep", path |-> "a", name |-> "a", parent |-> 0,
   type |-> "dir", size |-> 0, download_url |-> FALSE, ext |-> "",
   excluded |-> FALSE, boilerplate |-> FALSE, pathSkip |-> FALSE,
   marker |-> "", structure |-> {}, uiComponent |-> FALSE, entryPoint |-> FALSE,
   hidden |-> FALSE, uiDirectory |-> FALSE],
  [repo |-> "acme/deep", path |-> "a/one.txt", name |-> "one.txt", parent |-> 38,
   type |-> "file", size |-> 10, download_url |-> TRUE, ext |-> ".txt",
   excluded |-> FALSE, boilerplate |-> FALSE, pathSkip |-> FALSE,
   marker |-> "", structure |-> {}, uiComponent |-> FALSE, entryPoint |-> FALSE,
   hidden |-> FALSE, uiDirectory |-> FALSE],
  [repo |-> "acme/deep", path |-> "a/b", name |-> "b", parent |-> 38,
   type |-> "dir", size |-> 0, download_url |-> FALSE, ext |-> "",
   excluded |-> FALSE, boilerplate |-> FALSE, pathSkip |-> FALSE,
   marker |-> "", structure |-> {}, uiComponent |-> FALSE, entryPoint |-> FALSE,
   hidden |-> FALSE, uiDirectory |-> FALSE],
  [repo |-> "acme/deep", path |-> "a/b/two.txt", name |-> "two.txt", parent |-> 40,
   type |-> "file", size |-> 10, download_url |-> TRUE, ext |-> ".txt",
   excluded |-> FALSE, boilerplate |-> FALSE, pathSkip |-> FALSE,
   marker |-> "", structure |-> {}, uiComponent |-> FALSE, entryPoint |-> FALSE,
   hidden |-> FALSE, uiDirectory |-> FALSE],
  [repo |-> "acme/deep", path |-> "a/b/c", name |-> "c", parent |-> 40,
   type |-> "dir", size |-> 0, download_url |-> FALSE, ext |-> "",
   excluded |-> FALSE, boilerplate |-> FALSE, pathSkip |-> FALSE,
   marker |-> "", structure |-> {}, uiComponent |-> FALSE, entryPoint |-> FALSE,
   hidden |-> FALSE, uiDirectory |-> FALSE],
  [repo |-> "acme/deep", path |-> "a/b/c/three.txt", name |-> "three.txt", parent |-> 42,
   type |-> "file", size |-> 10, download_url |-> TRUE, ext |-> ".txt",
   excluded |-> FALSE, boilerplate |-> FALSE, pathSkip |-> FALSE,
   marker |-> "", structure |-> {}, uiComponent |-> FALSE, entryPoint |-> FALSE,
   hidden |-> FALSE, uiDirectory |-> FALSE],
  [repo |-> "acme/deep", path |-> "a/b/c/d", name |-> "d", parent |-> 42,
   type |-> "dir", size |-> 0, download_url |-> FALSE, ext |-> "",
   excluded |-> FALSE, boilerplate |-> FALSE, pathSkip |-> FALSE,
   marker |-> "", structure |-> {}, uiComponent |-> FALSE, entryPoint |-> FALSE,
   hidden |-> FALSE, uiDirectory |-> FALSE],
  [repo |-> "acme/deep", path |-> "a/b/c/d/four.txt", name |-> "four.txt", parent |-> 44,
   type |-> "file", size |-> 10, download_url |-> TRUE, ext |-> ".txt",
   excluded |-> FALSE, boilerplate |-> FALSE, pathSkip |-> FALSE,
   marker |-> "", structure |-> {}, uiComponent |-> FALSE, entryPoint |-> FALSE,
   hidden |-> FALSE, uiDirectory |-> FALSE],
  [repo |-> "acme/deep", path |-> "a/.hid", name |-> ".hid", parent |-> 38,
   type |-> "dir", size |-> 0, download_url |-> FALSE, ext |-> ".hid",
   excluded |-> TRUE, boilerplate |-> FALSE, pathSkip |-> TRUE,
   marker |-> "", structure |-> {}, uiComponent |-> FALSE, entryPoint |-> FALSE,
   hidden |-> TRUE, uiDirectory |-> FALSE],
  [repo |-> "acme/deep", path |-> "a/.hid/secret.txt", name |-> "secret.txt", parent |-> 46,
   type |-> "file", size |-> 10, download_url |-> TRUE, ext |-> ".txt",
   excluded |-> TRUE, boilerplate |-> FALSE, pathSkip |-> TRUE,
   marker |-> "", structure |-> {}, uiComponent |-> FALSE, entryPoint |-> FALSE,
   hidden |-> FALSE, uiDirectory |-> FALSE],
  [repo |-> "acme/deep", path |-> "a/s", name |-> "s", parent |-> 38,
   type |-> "dir", size |-> 0, download_url |-> FALSE, ext |-> "",
   excluded |-> FALSE, boilerplate |-> FALSE, pathSkip |-> FALSE,
   marker |-> "", structure |-> {}, uiComponent |-> FALSE, entryPoint |-> FALSE,
   hidden |-> FALSE, uiDirectory |-> FALSE],
  [repo |-> "acme/deep", path |-> "a/s/sib.txt", name |-> "sib.txt", parent |-> 48,
   type |-> "file", size |-> 10, download_url |-> TRUE, ext |-> ".txt",
   excluded |-> FALSE, boilerplate |-> FALSE, pathSkip |-> FALSE,
   marker |-> "", structure |-> {}, uiComponent |-> FALSE, entryPoint |-> FALSE,
   hidden |-> FALSE, uiDirectory |-> FALSE],
  [repo |-> "acme/deep", path |-> "a/last.txt", name |-> "last.txt", parent |-> 38,
   type |-> "file", size |-> 10, download_url |-> TRUE, ext |-> ".txt",
   excluded |-> FALSE, boilerplate |-> FALSE, pathSkip |-> FALSE,
   marker |-> "", structure |-> {}, uiComponent |-> FALSE, entryPoint |-> FALSE,
   hidden |-> FALSE, uiDirectory |-> FALSE],
  [repo |-> "acme/deep", path |-> "a/s/index.js", name |-> "index.js", parent |-> 48,
   type |-> "file", size |-> 90, download_url |-> TRUE, ext |-> ".js",
   excluded |-> TRUE, boilerplate |-> FALSE, pathSkip |-> FALSE,
   marker |-> "", structure |-> {}, uiComponent |-> FALSE, entryPoint |-> TRUE,
   hidden |-> FALSE, uiDirectory |-> FALSE],
  [repo |-> "acme/deep", path |-> "end.txt", name |-> "end.txt", parent |-> 0,
   type |-> "file", size |-> 10, download_url |-> TRUE, ext |-> ".txt",
   excluded |-> FALSE, boilerplate |-> FALSE, pathSkip |-> FALSE,
   marker |-> "", structure |-> {}, uiComponent |-> FALSE, entryPoint |-> FALSE,
   hidden |-> FALSE, uiDirectory |-> FALSE] >>

Urls == <<
  [text |-> "https://github.com/acme/app", urlMatch |-> TRUE, repo |-> "acme/app"],
  [text |-> "https://github.com/acme/docs", urlMatch |-> TRUE, repo |-> "acme/docs"],
  [text |-> "acme/app", urlMatch |-> FALSE, repo |-> ""],
  [text |-> "https://github.com/acme", urlMatch |-> FALSE, repo |-> ""],
  [text |-> "https://github.com/acme/lib", urlMatch |-> TRUE, repo |-> "acme/lib"],
  [text |-> "https://github.com/acme/deep", urlMatch |-> TRUE, repo |-> "acme/deep"] >>

EntryIds == 1..Len(Entries)

UrlIds == 1..Len(Urls)

LANGUAGE_MAP ==
  [ext \in {".js", ".jsx", ".ts", ".tsx", ".py", ".java", ".cpp", ".cc", ".cxx",
            ".c++", ".cs", ".go", ".rs", ".php", ".rb", ".swift", ".kt", ".scala",
            ".sh", ".sql", ".html", ".css", ".scss", ".sass", ".json", ".yaml",
            ".yml", ".xml", ".md"} |->
     CASE ext = ".js" -> "javascript" [] ext = ".jsx" -> "jsx"
       [] ext = ".ts" -> "typescript" [] ext = ".tsx" -> "tsx"
       [] ext = ".py" -> "python" [] ext = ".java" -> "java"
       [] ext \in {".cpp", ".cc", ".cxx", ".c++"} -> "cpp"
       [] ext = ".cs" -> "csharp" [] ext = ".go" -> "go" [] ext = ".rs" -> "rust"
       [] ext = ".php" -> "php" [] ext = ".rb" -> "ruby" [] ext = ".swift" -> "swift"
       [] ext = ".kt" -> "kotlin" [] ext = ".scala" -> "scala" [] ext = ".sh" -> "bash"
       [] ext = ".sql" -> "sql" [] ext = ".html" -> "html" [] ext = ".css" -> "css"
       [] ext = ".scss" -> "scss" [] ext = ".sass" -> "sass" [] ext = ".json" -> "json"
       [] ext \in {".yaml", ".yml"} -> "yaml" [] ext = ".xml" -> "xml"
       [] ext = ".md" -> "markdown"]

\* getLanguageFromPath(filePath) for the path of row e.
GetLanguageFromPath(e) ==
  IF Entries[e].ext # "" /\ Entries[e].ext \in DOMAIN LANGUAGE_MAP
  THEN LANGUAGE_MAP[Entries[e].ext] ELSE "text"

codeExtensions ==
  {".js", ".jsx", ".ts", ".tsx", ".py", ".java", ".cpp", ".cc", ".cxx", ".c++",
   ".cs", ".go", ".rs", ".php", ".rb", ".swift", ".kt", ".scala", ".vue", ".svelte"}

\* shouldAnalyzeFile(filePath) for the path of row e.
ShouldAnalyzeFile(e) ==
  /\ Entries[e].ext # ""
  /\ Entries[e].ext \in codeExtensions
  /\ ~Entries[e].excluded
  /\ ~Entries[e].boilerplate

\* 1024 * 1024
MaxFileSize == 1048576

\* The predicate of allFiles.filter(...) in analyzeGitHubRepository: a size
\* of 0 and a missing download_url are falsy.
AnalyzeableAnySize(e) ==
  /\ ShouldAnalyzeFile(e)
  /\ Entries[e].size < MaxFileSize
  /\ Entries[e].download_url

Analyzeable(e) ==
  /\ ShouldAnalyzeFile(e)
  /\ Entries[e].size # 0
  /\ Entries[e].size < MaxFileSize
  /\ Entries[e].download_url

skipPatterns ==
  {"node_modules", "dist", "build", ".next", ".nuxt", "coverage", ".nyc_output",
   "public", "static", "assets", "components/ui", ".generated", ".gen", ".git",
   ".svn", ".hg", ".vscode", ".idea", ".vs", ".husky", ".github", ".gitlab",
   "tmp", "temp", ".cache", ".temp"}

\* shouldSkipDirectory(item.path, item.name) for row e.
ShouldSkipDirectoryPathOnly(e) == Entries[e].pathSkip

ShouldSkipDirectory(e) ==
  Entries[e].name \in skipPatterns \/ Entries[e].pathSkip

(***************************************************************************)
(* Walker                                                                  *)
(***************************************************************************)
\* What the contents request of directory dir (0: the root) of repository
\* repo answers: its items, in listing order.
Contents(repo, dir) ==
  SelectSeq([e \in EntryIds |-> e],
            LAMBDA e : Entries[e].repo = repo /\ Entries[e].parent = dir)

\* maxDepth: number = 4
DefaultMaxDepth == 4

\* getAllFiles(owner, repo, path, maxDepth) in a world where the contents
\* requests of the directories in failing fail: ok is FALSE when the call
\* throws, files is what it returns, fetched lists the directories whose
\* contents it requested, in order.  WalkItems is its `for` loop over the
\* items still to visit.
RECURSIVE GetAllFiles(_, _, _, _)
RECURSIVE WalkItems(_, _, _, _, _)
GetAllFilesAnyDepth(repo, dir, maxDepth, failing) ==
  IF dir \in failing THEN [ok |-> FALSE, files |-> << >>, fetched |-> <<dir>>]
  ELSE WalkItems(repo, Contents(repo, dir), maxDepth, failing,
                 [ok |-> TRUE, files |-> << >>, fetched |-> <<dir>>])

GetAllFiles(repo, dir, maxDepth, failing) ==
  IF maxDepth <= 0 THEN [ok |-> TRUE, files |-> << >>, fetched |-> << >>]
  ELSE IF dir \in failing THEN [ok |-> FALSE, files |-> << >>, fetched |-> <<dir>>]
  ELSE WalkItems(repo, Contents(repo, dir), maxDepth, failing,
                 [ok |-> TRUE, files |-> << >>, fetched |-> <<dir>>])

\* As WalkItems, without the try and catch around the recursive call.
WalkItemsUncaught(repo, items, maxDepth, failing, walked) ==
  IF items = << >> \/ ~walked.ok THEN walked
  ELSE LET item == Head(items)
           subFiles == GetAllFiles(repo, item, maxDepth - 1, failing)
       IN  IF Entries[item].type = "file"
           THEN WalkItems(repo, Tail(items), maxDepth, failing,
                          [walked EXCEPT !.files = Append(@, item)])
           ELSE IF Entries[item].type = "dir" /\ ~ShouldSkipDirectory(item)
           THEN WalkItems(repo, Tail(items), maxDepth, failing,
                          [walked EXCEPT !.ok = subFiles.ok,
                                         !.files = @ \o subFiles.files,
                                         !.fetched = @ \o subFiles.fetched])
           ELSE WalkItems(repo, Tail(items), maxDepth, failing, walked)

WalkItems(repo, items, maxDepth, failing, walked) ==
  IF items = << >> THEN walked
  ELSE LET item == Head(items)
           subFiles == GetAllFiles(repo, item, maxDepth - 1, failing)
       IN  IF Entries[item].type = "file"
           THEN WalkItems(repo, Tail(items), maxDepth, failing,
                          [walked EXCEPT !.files = Append(@, item)])
           ELSE IF Entries[item].type = "dir" /\ ~ShouldSkipDirectory(item)
           THEN WalkItems(repo, Tail(items), maxDepth, failing,
                          [walked EXCEPT
                             !.files = @ \o (IF subFiles.ok THEN subFiles.files ELSE << >>),
                             !.fetched = @ \o subFiles.fetched])
           ELSE WalkItems(repo, Tail(items), maxDepth, failing, walked)

(***************************************************************************)
(* Provenance detection                                                    *)
(***************************************************************************)
\* The entries of filesToCheck, in order.
filesToCheck == <<"index.html", "package.json", "README.md">>

\* allFiles.find(...) for one entry of filesToCheck: the first gathered file
\* that matches and has a download_url, in a sequence of at most one file.
MarkerFile(allFiles, fileToCheck) ==
  LET found == SelectSeq(allFiles, LAMBDA e : Entries[e].marker = fileToCheck)
  IN  IF found # << >> /\ Entries[found[1]].download_url THEN <<found[1]>> ELSE << >>

\* The indicator pushed when its condition holds (count is the number the
\* message text carries, 0 when it carries none).
IndicatorAlways(holds, text, count) == <<[indicator |-> text, count |-> count]>>

Indicator(holds, text, count) ==
  IF holds THEN <<[indicator |-> text, count |-> count]>> ELSE << >>

\* As detectLovableGeneration, but a marker file whose request fails counts
\* as holding the keyword.
DetectLovableGenerationFailedCounts(metadata, commits, allFiles, markers) ==
  LET lovableBotCommits == Len(SelectSeq(commits, LAMBDA c : c.bot))
      failed == SelectSeq(filesToCheck,
                          LAMBDA f : /\ MarkerFile(allFiles, f) # << >>
                                     /\ markers[f] # "plain")
      indicators ==
           Indicator(metadata = "lovable", "Repository description mentions Lovable", 0)
        \o [k \in 1..Len(failed) |->
              [indicator |-> "Found lovable keyword in " \o failed[k], count |-> 0]]
  IN  [isLovable |-> Len(indicators) >= 2 \/ lovableBotCommits > 0,
       indicators |-> indicators]

\* detectLovableGeneration(metadata, commits, allFiles, owner, repo), where
\* markers gives for each entry of filesToCheck what fetching its file
\* answers: "failed", "lovable" (the text includes the keyword) or "plain".
DetectLovableGeneration(metadata, commits, allFiles, markers) ==
  LET lovableBotCommits == Len(SelectSeq(commits, LAMBDA c : c.bot))
      lovableCommitMessages == Len(SelectSeq(commits, LAMBDA c : c.message))
      keyword(i) == /\ MarkerFile(allFiles, filesToCheck[i]) # << >>
                    /\ markers[filesToCheck[i]] = "lovable"
      foundLovableFiles ==
        Cardinality({s \in 1..5 : \E i \in 1..Len(allFiles) :
                                     s \in Entries[allFiles[i]].structure})
      uiComponents == Len(SelectSeq(allFiles, LAMBDA e : Entries[e].uiComponent))
      indicators ==
           Indicator(metadata = "lovable", "Repository description mentions Lovable", 0)
        \o Indicator(lovableBotCommits > 0, "Found commits by lovable-dev[bot]",
                     lovableBotCommits)
        \o Indicator(lovableCommitMessages > 0,
                     "Found commits with Lovable-related messages", lovableCommitMessages)
        \o Indicator(keyword(1), "Found lovable keyword in index.html", 0)
        \o Indicator(keyword(2), "Found lovable keyword in package.json", 0)
        \o Indicator(keyword(3), "Found lovable keyword in README.md", 0)
        \o Indicator(foundLovableFiles >= 3, "Project structure matches Lovable template", 0)
        \o Indicator(uiComponents > 5, "Found shadcn/ui components", uiComponents)
  IN  [isLovable |-> Len(indicators) >= 2 \/ lovableBotCommits > 0,
       indicators |-> indicators]

(***************************************************************************)
(* analyzeGitHubRepository: the pieces between its awaits                  *)
(***************************************************************************)
\* repositoryUrl.match(...) finds owner and repo.
UrlMatchAny(url) == TRUE

UrlMatch(url) == Urls[url].urlMatch

\* What the callback and the network see, in order.
Progress(current, total, currentFile) ==
  [kind |-> "progress", current |-> current, total |-> total, path |-> currentFile]

Fetch(what, path) == [kind |-> "fetch", what |-> what, path |-> path]

\* The end of the loop body for file number current: outcome is "failed"
\* (the catch), "empty" (the continue) or "analyzed".
Finished(current, path, outcome) ==
  [kind |-> "finished", current |-> current, path |-> path, outcome |-> outcome]

\* Path of a directory requested by the walker ('' for the root).
DirPath(dir) == IF dir = 0 THEN "" ELSE Entries[dir].path

\* Fetch events of the walker's contents requests.
Listings(fetched) == [k \in 1..Len(fetched) |-> Fetch("contents", DirPath(fetched[k]))]

\* !content.trim() for a text given by its lines.
IsEmptyContent(content) == \A k \in 1..Len(content) : IsBlank(content[k])

\* analyzeableFiles.length === 0
NoAnalyzeableFilesNever(analyzeableFiles) == FALSE

NoAnalyzeableFiles(analyzeableFiles) == Len(analyzeableFiles) = 0

\* The accumulators declared before the loop.
NewTotals ==
  [totalLines |-> 0, totalAiLines |-> 0, totalHumanLines |-> 0,
   totalConfidence |-> <<0, 1>>, analyzedCount |-> 0]

\* The head of iteration k (the source's i + 1) up to its await: the
\* progress callback, then the content request.
IterationHeadFetchFirst(k, analyzeableFiles) ==
  <<Fetch("content", Entries[analyzeableFiles[k]].path),
    Progress(k, Len(analyzeableFiles), Entries[analyzeableFiles[k]].path)>>

IterationHead(k, analyzeableFiles) ==
  <<Progress(k, Len(analyzeableFiles), Entries[analyzeableFiles[k]].path),
    Fetch("content", Entries[analyzeableFiles[k]].path)>>

\* The try block after analyzeCode returned analysis for file: the push and
\* the accumulators.
Counted(file, analysis, loop) ==
  [fileAnalyses |->
     Append(loop.fileAnalyses,
            [path |-> Entries[file].path,
             language |-> GetLanguageFromPath(file),
             analysis |-> analysis.result,
             size |-> Entries[file].size]),
   totals |->
     [totalLines |-> loop.totals.totalLines + analysis.result.totalLines,
      totalAiLines |-> loop.totals.totalAiLines + analysis.result.aiLines,
      totalHumanLines |-> loop.totals.totalHumanLines + analysis.result.humanLines,
      totalConfidence |->
        FAdd(loop.totals.totalConfidence, analysis.result.overallConfidence),
      analyzedCount |-> loop.totals.analyzedCount + 1],
   lastIndex |-> analysis.lastIndex,
   outcome |-> "analyzed"]

\* An iteration that adds no FileAnalysis: the catch, or the continue.
SkippedCounted(loop, li, outcome) ==
  [fileAnalyses |-> loop.fileAnalyses,
   totals |-> [loop.totals EXCEPT !.analyzedCount = @ + 1],
   lastIndex |-> li, outcome |-> outcome]

Skipped(loop, li, outcome) ==
  [fileAnalyses |-> loop.fileAnalyses, totals |-> loop.totals,
   lastIndex |-> li, outcome |-> outcome]

\* The loop from its test for iteration k up to the next await: the head
\* of iteration k, or, past the last file, the call of
\* detectLovableGeneration.  ev is the events so far.
LoopFrom(k, analyzeableFiles, ev) ==
  IF k <= Len(analyzeableFiles)
  THEN [pc |-> "fetchFileContent", fileIndex |-> k,
        events |-> ev \o IterationHead(k, analyzeableFiles)]
  ELSE [pc |-> "detectLovableGeneration", fileIndex |-> 0, events |-> ev]

\* The rest of iteration k once the content request has settled: response
\* is [ok, content].  loop holds fileAnalyses and the accumulators; li is the
\* rule tables' lastIndex.  Returns them as the iteration leaves them.
Iteration(file, response, loop, li) ==
  IF ~response.ok THEN Skipped(loop, li, "failed")
  ELSE IF IsEmptyContent(response.content) THEN Skipped(loop, li, "empty")
  ELSE Counted(file, AnalyzeCode(response.content, GetLanguageFromPath(file), li), loop)

\* overallStats and the returned RepositoryAnalysis.
OverallStatsPerFile(totals) ==
  [totalLines |-> totals.totalLines,
   aiLines |-> totals.totalAiLines,
   humanLines |-> totals.totalHumanLines,
   aiPercentage |-> IF totals.analyzedCount > 0
                    THEN Frac(totals.totalAiLines * 100, totals.analyzedCount) ELSE <<0, 1>>,
   humanPercentage |-> IF totals.analyzedCount > 0
                       THEN Frac(totals.totalHumanLines * 100, totals.analyzedCount)
                       ELSE <<0, 1>>,
   overallConfidence |-> totals.totalConfidence]

\* As OverallStats, with the 0.5 of an empty AnalysisResult when no file was
\* analysed.
OverallStatsNeutral(totals) ==
  [totalLines |-> totals.totalLines,
   aiLines |-> totals.totalAiLines,
   humanLines |-> totals.totalHumanLines,
   aiPercentage |-> IF totals.totalLines > 0
                    THEN Frac(totals.totalAiLines * 100, totals.totalLines) ELSE <<0, 1>>,
   humanPercentage |-> IF totals.totalLines > 0
                       THEN Frac(totals.totalHumanLines * 100, totals.totalLines)
                       ELSE <<0, 1>>,
   overallConfidence |-> IF totals.analyzedCount > 0
                         THEN Frac(totals.totalConfidence[1],
                                   totals.totalConfidence[2] * totals.analyzedCount)
                         ELSE <<1, 2>>]

OverallStats(totals) ==
  [totalLines |-> totals.totalLines,
   aiLines |-> totals.totalAiLines,
   humanLines |-> totals.totalHumanLines,
   aiPercentage |-> IF totals.totalLines > 0
                    THEN Frac(totals.totalAiLines * 100, totals.totalLines) ELSE <<0, 1>>,
   humanPercentage |-> IF totals.totalLines > 0
                       THEN Frac(totals.totalHumanLines * 100, totals.totalLines)
                       ELSE <<0, 1>>,
   overallConfidence |-> IF totals.analyzedCount > 0
                         THEN Frac(totals.totalConfidence[1],
                                   totals.totalConfidence[2] * totals.analyzedCount)
                         ELSE <<0, 1>>]

RepositoryAnalysisAnalyzedOnly(url, allFiles, fileAnalyses, totals, lovableDetection) ==
  [repositoryUrl |-> Urls[url].text,
   totalFiles |-> Len(fileAnalyses),
   analyzedFiles |-> Len(fileAnalyses),
   files |-> fileAnalyses,
   isLovableGenerated |-> lovableDetection.isLovable,
   lovableIndicators |-> lovableDetection.indicators,
   overallStats |-> OverallStats(totals)]

RepositoryAnalysis(url, allFiles, fileAnalyses, totals, lovableDetection) ==
  [repositoryUrl |-> Urls[url].text,
   totalFiles |-> Len(allFiles),
   analyzedFiles |-> Len(fileAnalyses),
   files |-> fileAnalyses,
   isLovableGenerated |-> lovableDetection.isLovable,
   lovableIndicators |-> lovableDetection.indicators,
   overallStats |-> OverallStats(totals)]

(***************************************************************************)
(* State                                                                   *)
(***************************************************************************)
VARIABLES
  pending,     \* snippet mode: the analyzeCode calls still to be made
  lastIndex,   \* lastIndex of every rule's regular expression (module state)
  returned,    \* snippet mode: the calls that returned, oldest first
  pc,          \* repository mode: where analyzeGitHubRepository is waiting
  repositoryUrl,    \* its argument, a row of Urls
  allFiles,         \* its locals, as in the source
  metadata,
  commits,
  analyzeableFiles,
  fileIndex,        \* the source's i + 1 while a content request is pending
  loop,             \* fileAnalyses and the accumulators
  events,           \* progress callbacks and requests so far, in order
  failedListings,   \* the directories (0: the root) whose contents request failed
  markerContents,   \* what the content requests of detectLovableGeneration answered
  outcome           \* what the call settled with

engineVars == <<pending, lastIndex, returned>>

repoVars ==
  <<pc, repositoryUrl, allFiles, metadata, commits, analyzeableFiles, fileIndex, loop,
    events, failedListings, markerContents, outcome>>

vars == <<engineVars, repoVars>>

(***************************************************************************)
(* Inputs                                                                  *)
(***************************************************************************)
\* Bounds.
MaxCalls == 2
MaxSnippetLines == 2
MaxFileLines == 3
MaxBiasLines == 4
MaxLines == 6
MaxLookLines == 7
MaxLinesHeld == 4

\* Language tags the calls use ("text" has no language rules).
Languages == {"javascript", "typescript", "text"}

\* Lines the texts of the multi-call specification are made of.
SnippetLines == {1, 4, 6, 7, 8}

\* Lines the long texts of the single-call specification are made of: a
\* blank line, an AI line, a creative Human line and two plain Human lines,
\* one at confidence 0.5 and one at 0.95.
BlockLines == {1, 3, 5, 6, 10}

\* Lines of its longest texts: a blank line, an AI line and a plain Human
\* line.
LookLines == {1, 3, 6}

\* Lines of its texts with a structure score above 0.5: a blank line, a
\* validation line, the two plain Human lines and an AI line at 0.75.
BiasLines == {1, 6, 7, 10, 11}

\* Lines the files of the repositories are made of: a blank line, an AI line
\* and a Human line.
FileLines == {1, 4, 6}

\* The sequences of at most n elements of S.
RECURSIVE SeqsUpTo(_, _)
SeqsUpTo(S, n) ==
  IF n = 0 THEN {<< >>}
  ELSE LET shorter == SeqsUpTo(S, n - 1)
       IN  shorter \cup {Append(s, x) : s \in {t \in shorter : Len(t) = n - 1}, x \in S}

\* The texts of 1..n lines over the lines S (split never returns no line).
Codes(S, n) == SeqsUpTo(S, n) \ {<< >>}

Requests(S, n, langs) == [code : Codes(S, n), language : langs]

\* lastIndex of every regular expression when the module is loaded.
FreshLastIndex == [r \in Rules |-> 0]

\* The lastIndex values an earlier call that classified one line leaves.
PriorLastIndex ==
  {AnalyzeLine(l, lang, FreshLastIndex).lastIndex : l \in LineIds, lang \in Languages}

\* The lines of the analyses pushed to fileAnalyses so far.
RECURSIVE LinesHeld(_)
LinesHeld(fileAnalyses) ==
  IF fileAnalyses = << >> THEN 0
  ELSE Len(Head(fileAnalyses).analysis.lineAnalysis) + LinesHeld(Tail(fileAnalyses))

\* What a content request answers: a failure or a text.
Responses ==
  {[ok |-> FALSE, content |-> << >>]}
    \cup {[ok |-> TRUE, content |-> c] : c \in Codes(FileLines, MaxFileLines)}

\* What the metadata request leaves in metadata: null when it fails, else
\* whether the description includes 'lovable'.
Metadatas == {"null", "plain", "lovable"}

\* What the commits request leaves in commits (the empty list when it
\* fails): each commit is by the bot, or has a Lovable-related message.
Commits ==
  {<< >>,
   <<[bot |-> TRUE, message |-> FALSE]>>,
   <<[bot |-> FALSE, message |-> TRUE]>>,
   <<[bot |-> TRUE, message |-> FALSE], [bot |-> FALSE, message |-> TRUE]>>}

\* The directories whose contents request may fail: none, or one of the
\* root (0) and the directories of the repositories.
Failures ==
  {{}} \cup {{d} : d \in {0} \cup {e \in EntryIds : Entries[e].type = "dir"}}

NoOutcome == [kind |-> "pending"]

\* No repository analysis is running.
RepoIdle ==
  /\ pc = "idle"
  /\ repositoryUrl = 1
  /\ allFiles = << >>
  /\ metadata = "null"
  /\ commits = << >>
  /\ analyzeableFiles = << >>
  /\ fileIndex = 0
  /\ loop = [fileAnalyses |-> << >>, totals |-> NewTotals]
  /\ events = << >>
  /\ failedListings = {}
  /\ markerContents = << >>
  /\ outcome = NoOutcome

\* Snippet mode, several calls in one freshly loaded process.
Init ==
  /\ pending \in SeqsUpTo(Requests(SnippetLines, MaxSnippetLines, {"javascript", "text"}),
                          MaxCalls)
  /\ lastIndex = FreshLastIndex
  /\ returned = << >>
  /\ RepoIdle

\* Snippet mode, one call: a short text of any lines in a process that
\* classified a line before, or a longer text in a fresh process.
InitCall ==
  /\ returned = << >>
  /\ \/ /\ pending \in {<<r>> : r \in Requests(LineIds, MaxSnippetLines, Languages)}
        /\ lastIndex \in PriorLastIndex
     \/ /\ pending \in {<<r>> : r \in Requests(BiasLines, MaxBiasLines, {"javascript"})
                                        \cup Requests(BlockLines, MaxLines, {"javascript"})
                                        \cup Requests(LookLines, MaxLookLines,
                                                      {"javascript"})}
        /\ lastIndex = FreshLastIndex
  /\ RepoIdle

\* Repository mode: one call of analyzeGitHubRepository in a freshly loaded
\* process.
InitRepo ==
  /\ pending = << >>
  /\ lastIndex = FreshLastIndex
  /\ returned = << >>
  /\ pc = "called"
  /\ repositoryUrl \in UrlIds
  /\ allFiles = << >>
  /\ metadata = "null"
  /\ commits = << >>
  /\ analyzeableFiles = << >>
  /\ fileIndex = 0
  /\ loop = [fileAnalyses |-> << >>, totals |-> NewTotals]
  /\ events = << >>
  /\ failedListings = {}
  /\ markerContents = << >>
  /\ outcome = NoOutcome

(***************************************************************************)
(* Snippet mode                                                            *)
(***************************************************************************)
\* One call of analyzeCode, from its timer firing to its return: the body
\* after the await is synchronous, so calls do not interleave.
AnalyzeCodeCall ==
  /\ pending # << >>
  /\ \E out \in {AnalyzeCode(Head(pending).code, Head(pending).language, lastIndex)} :
       /\ lastIndex' = out.lastIndex
       /\ returned' = Append(returned,
                        [code |-> Head(pending).code, language |-> Head(pending).language,
                         before |-> lastIndex,
                         raw |-> out.raw, classified |-> out.classified,
                         structureScore |-> out.structureScore,
                         result |-> out.result])
  /\ pending' = Tail(pending)
  /\ UNCHANGED repoVars

(***************************************************************************)
(* Repository mode                                                         *)
(***************************************************************************)
\* The call up to its first await: the URL is parsed, and when it matches
\* the first progress callback is made and the walk is started.
Start ==
  /\ pc = "called"
  /\ IF ~UrlMatch(repositoryUrl)
     THEN /\ pc' = "rejected"
          /\ outcome' = [kind |-> "error", error |-> "Invalid GitHub repository URL"]
          /\ UNCHANGED events
     ELSE /\ pc' = "getAllFiles"
          /\ events' = Append(events, Progress(0, 1, "Fetching repository structure..."))
          /\ UNCHANGED outcome
  /\ UNCHANGED <<engineVars, repositoryUrl, allFiles, metadata, commits,
                 analyzeableFiles, fileIndex, loop, failedListings,
                 markerContents>>

\* getAllFiles settles (failedListings keeps which of the contents requests
\* it made failed): the call is rejected when the root contents request
\* failed; otherwise the second progress callback is made and the metadata
\* and commits requests are issued.
GetAllFilesSettles ==
  /\ pc = "getAllFiles"
  /\ \E failing \in Failures :
       \E walk \in {GetAllFiles(Urls[repositoryUrl].repo, 0, DefaultMaxDepth, failing)} :
         /\ failedListings' = {d \in failing : \E k \in 1..Len(walk.fetched) :
                                                  walk.fetched[k] = d}
         /\ IF ~walk.ok
           THEN /\ pc' = "rejected"
                /\ outcome' = [kind |-> "error", error |-> "GitHub API error"]
                /\ events' = events \o Listings(walk.fetched)
                /\ UNCHANGED allFiles
           ELSE /\ pc' = "metadata"
                /\ allFiles' = walk.files
                /\ events' = events \o Listings(walk.fetched)
                               \o <<Progress(0, 1, "Fetching repository metadata..."),
                                    Fetch("metadata", ""), Fetch("commits", "")>>
                /\ UNCHANGED outcome
  /\ UNCHANGED <<engineVars, repositoryUrl, metadata, commits, analyzeableFiles, fileIndex,
                 loop, markerContents>>

\* The metadata and commits requests settle: the files are filtered, the
\* call is rejected when none is left, and otherwise the loop runs up to its
\* first content request.
MetadataSettles ==
  /\ pc = "metadata"
  /\ metadata' \in Metadatas
  /\ commits' \in Commits
  /\ analyzeableFiles' = SelectSeq(allFiles, Analyzeable)
  /\ IF NoAnalyzeableFiles(analyzeableFiles')
     THEN /\ pc' = "rejected"
          /\ outcome' = [kind |-> "error", error |-> "No analyzeable code files found"]
          /\ UNCHANGED <<fileIndex, events>>
     ELSE /\ \E next \in {LoopFrom(1, analyzeableFiles', events)} :
               /\ pc' = next.pc
               /\ fileIndex' = next.fileIndex
               /\ events' = next.events
          /\ UNCHANGED outcome
  /\ UNCHANGED <<engineVars, repositoryUrl, allFiles, loop, failedListings,
                 markerContents>>

\* The content request of file fileIndex settles and the iteration runs to its end;
\* then the next iteration runs up to its content request, or, after the
\* last file, detectLovableGeneration is called.  The text answered and
\* fileAnalyses together stay within MaxLinesHeld lines.
FetchFileContentSettles ==
  /\ pc = "fetchFileContent"
  /\ \E response \in {r \in Responses : LinesHeld(loop.fileAnalyses) + Len(r.content)
                                            <= MaxLinesHeld} :
       \E done \in {Iteration(analyzeableFiles[fileIndex], response, loop, lastIndex)} :
       \E ended \in {Append(events, Finished(fileIndex,
                                             Entries[analyzeableFiles[fileIndex]].path,
                                             done.outcome))} :
           /\ loop' = [fileAnalyses |-> done.fileAnalyses, totals |-> done.totals]
           /\ lastIndex' = done.lastIndex
           /\ \E next \in {LoopFrom(fileIndex + 1, analyzeableFiles, ended)} :
                /\ pc' = next.pc
                /\ fileIndex' = next.fileIndex
                /\ events' = next.events
  /\ UNCHANGED <<pending, returned, repositoryUrl, allFiles, metadata, commits,
                 analyzeableFiles, failedListings, markerContents, outcome>>

\* detectLovableGeneration settles, whatever its content requests answered,
\* and the RepositoryAnalysis is returned.
DetectLovableGenerationSettles ==
  /\ pc = "detectLovableGeneration"
  /\ \E checked \in {SelectSeq(filesToCheck,
                                 LAMBDA f : MarkerFile(allFiles, f) # << >>)} :
       \E markers \in [{checked[k] : k \in 1..Len(checked)} ->
                         {"failed", "lovable", "plain"}] :
         \E lovableDetection \in {DetectLovableGeneration(metadata, commits, allFiles,
                                                           markers)} :
           /\ events' = events \o [k \in 1..Len(checked) |-> Fetch("content", checked[k])]
           /\ markerContents' = markers
           /\ outcome' = [kind |-> "returned",
                          result |-> RepositoryAnalysis(repositoryUrl, allFiles,
                                       loop.fileAnalyses, loop.totals, lovableDetection)]
  /\ pc' = "returned"
  /\ UNCHANGED <<engineVars, repositoryUrl, allFiles, metadata, commits,
                 analyzeableFiles, fileIndex, loop, failedListings>>

Next == AnalyzeCodeCall

NextRepo ==
  \/ Start
  \/ GetAllFilesSettles
  \/ MetadataSettles
  \/ FetchFileContentSettles
  \/ DetectLovableGenerationSettles

Spec == Init /\ [][Next]_vars

SpecCall == InitCall /\ [][Next]_vars

SpecRepo == InitRepo /\ [][NextRepo]_vars

(***************************************************************************)
(* Properties of the classifier                                            *)
(***************************************************************************)
BlockReason == "Part of extended AI-generated code block"

SandwichReason == "Line sandwiched between AI-generated code blocks"

Contains(s, x) == \E i \in 1..Len(s) : s[i] = x

IsPrefix(s, t) == Len(s) <= Len(t) /\ SubSeq(t, 1, Len(s)) = s

\* The positions of the lines of a returned call.
Positions(call) == 1..Len(call.code)

\* C1: two calls of analyzeCode with the same text and the same language tag
\* return identical results, whatever was classified before or in between.
Determinism ==
  \A i, j \in 1..Len(returned) :
     (returned[i].code = returned[j].code /\ returned[i].language = returned[j].language)
       => returned[i].result = returned[j].result

\* C3: in every returned FileVerdict a non-blank line has a confidence in
\* [0.1, 0.95] and a blank line has confidence exactly 0.5 and isAI = FALSE.
ConfidenceBounds ==
  \A c \in 1..Len(returned) : \A i \in Positions(returned[c]) :
     LET v == returned[c].result.lineAnalysis[i]
     IN  IF Lines[returned[c].code[i]].blank
         THEN v.confidence = <<1, 2>> /\ ~v.isAI
         ELSE FLeq(<<1, 10>>, v.confidence) /\ FLeq(v.confidence, <<19, 20>>)

\* A call went through bias and smoothing: the structure score is above 0.5
\* and raised an AI line's confidence, a Human line was flipped and sits at
\* the upper bound, and one line is blank.
ConfidenceBoundsWitness ==
  \E c \in 1..Len(returned) :
     /\ returned[c].structureScore > 50
     /\ \E i \in Positions(returned[c]) : Lines[returned[c].code[i]].blank
     /\ \E i \in Positions(returned[c]) :
           FLess(returned[c].raw[i].confidence, returned[c].classified[i].confidence)
     /\ \E i \in Positions(returned[c]) :
           /\ ~returned[c].classified[i].isAI
           /\ returned[c].result.lineAnalysis[i].isAI
           /\ returned[c].result.lineAnalysis[i].confidence = <<19, 20>>

\* C4: applyContextualAnalysis never lowers a confidence, only appends to the
\* reasons, keeps the content, never turns an AI line Human and leaves blank
\* lines as they were.
SmootherMonotone ==
  \A c \in 1..Len(returned) : \A i \in Positions(returned[c]) :
     LET old == returned[c].classified[i]
         new == returned[c].result.lineAnalysis[i]
     IN  /\ FLeq(old.confidence, new.confidence)
         /\ IsPrefix(old.reasons, new.reasons)
         /\ new.content = old.content
         /\ old.isAI => new.isAI
         /\ Lines[old.content].blank => new = old

\* The smoother flipped a line whose confidence was already above 0.7 and
\* one it had to raise, in a text with a blank line.
SmootherMonotoneWitness ==
  \E c \in 1..Len(returned) :
     /\ \E i \in Positions(returned[c]) : Lines[returned[c].code[i]].blank
     /\ \E i \in Positions(returned[c]) :
           /\ ~returned[c].classified[i].isAI
           /\ returned[c].result.lineAnalysis[i].isAI
           /\ returned[c].classified[i].confidence = <<19, 20>>
     /\ \E i \in Positions(returned[c]) :
           /\ ~returned[c].classified[i].isAI
           /\ returned[c].result.lineAnalysis[i].isAI
           /\ FLess(returned[c].classified[i].confidence,
                    returned[c].result.lineAnalysis[i].confidence)

\* C5: a non-blank line analyzeLine labelled Human whose content matches the
\* creative pattern set is Human in the result.
CreativeExemption ==
  \A c \in 1..Len(returned) : \A i \in Positions(returned[c]) :
     (/\ ~Lines[returned[c].code[i]].blank
      /\ ~returned[c].raw[i].isAI
      /\ Lines[returned[c].code[i]].creative)
       => ~returned[c].result.lineAnalysis[i].isAI

\* A creative Human line between two AI lines, and one after a run of three
\* AI lines with an AI line after it.
CreativeExemptionWitness ==
  \E c \in 1..Len(returned) :
     LET call == returned[c]
         Exempt(i) == /\ ~call.raw[i].isAI
                      /\ Lines[call.code[i]].creative
                      /\ ~Lines[call.code[i]].blank
                      /\ ~call.result.lineAnalysis[i].isAI
     IN  \E i \in 4..(Len(call.code) - 1) :
            /\ Exempt(i)
            /\ \A j \in (i - 3)..(i - 1) : call.raw[j].isAI
            /\ call.raw[i + 1].isAI

\* The six-line scenario: lines 1-4 and 6 labelled AI by analyzeLine, line 5
\* labelled Human, non-blank and not creative.
BlockScenario(call) ==
  /\ Len(call.code) = 6
  /\ \A i \in 1..6 : ~Lines[call.code[i]].blank
  /\ \A i \in {1, 2, 3, 4, 6} : call.raw[i].isAI
  /\ ~call.raw[5].isAI
  /\ ~Lines[call.code[5]].creative

\* C6 as stated: in the scenario line 5 ends AI with the block-extension
\* rationale among its reasons.
BlockScenarioBlockRationale ==
  \A c \in 1..Len(returned) :
     BlockScenario(returned[c]) =>
       /\ returned[c].result.lineAnalysis[5].isAI
       /\ Contains(returned[c].result.lineAnalysis[5].reasons, BlockReason)

\* C6 as amended: in the scenario line 5 ends AI, flipped by the sandwich rule
\* (which runs first), so its reasons hold the sandwich rationale and not the
\* block-extension rationale.
BlockScenarioSandwichRationale ==
  \A c \in 1..Len(returned) :
     BlockScenario(returned[c]) =>
       /\ returned[c].result.lineAnalysis[5].isAI
       /\ Contains(returned[c].result.lineAnalysis[5].reasons, SandwichReason)
       /\ ~Contains(returned[c].result.lineAnalysis[5].reasons, BlockReason)

BlockScenarioWitness ==
  \E c \in 1..Len(returned) :
     BlockScenario(returned[c]) /\ returned[c].result.lineAnalysis[5].isAI

(***************************************************************************)
(* Properties of the repository analysis                                   *)
(***************************************************************************)
InvalidUrl == [kind |-> "error", error |-> "Invalid GitHub repository URL"]

NoAnalyzeable == [kind |-> "error", error |-> "No analyzeable code files found"]

\* Number of non-blank lines of a FileVerdict, and of those labelled AI or not.
NonBlank(analysis) ==
  Cardinality({k \in 1..Len(analysis.lineAnalysis) :
                 ~Lines[analysis.lineAnalysis[k].content].blank})

NonBlankLabelled(analysis, ai) ==
  Cardinality({k \in 1..Len(analysis.lineAnalysis) :
                 /\ ~Lines[analysis.lineAnalysis[k].content].blank
                 /\ analysis.lineAnalysis[k].isAI = ai})

\* Sums over per-file verdicts.
RECURSIVE SumLines(_, _)
SumLines(files, field) ==
  IF files = << >> THEN 0
  ELSE files[1].analysis[field] + SumLines(Tail(files), field)

RECURSIVE SumConfidence(_)
SumConfidence(files) ==
  IF files = << >> THEN <<0, 1>>
  ELSE FAdd(files[1].analysis.overallConfidence, SumConfidence(Tail(files)))

\* The events of one kind, as positions of the log.
ProgressAt(p) == events[p].kind = "progress" /\ events[p].current >= 1

FinishedAt(p) == events[p].kind = "finished"

ContentFetchAt(p) == events[p].kind = "fetch" /\ events[p].what = "content"

FinishedBefore(p) == Cardinality({q \in 1..(p - 1) : FinishedAt(q)})

\* C2: in every FileVerdict and in the aggregate of every RepositoryVerdict
\* aiLines + humanLines = totalLines, and the three counts count the
\* non-blank lines: all of them, those labelled AI, those labelled Human.
CountsAddUp ==
  /\ \A f \in 1..Len(loop.fileAnalyses) :
        /\ loop.fileAnalyses[f].analysis.aiLines + loop.fileAnalyses[f].analysis.humanLines
             = loop.fileAnalyses[f].analysis.totalLines
        /\ loop.fileAnalyses[f].analysis.totalLines = NonBlank(loop.fileAnalyses[f].analysis)
        /\ loop.fileAnalyses[f].analysis.aiLines
             = NonBlankLabelled(loop.fileAnalyses[f].analysis, TRUE)
        /\ loop.fileAnalyses[f].analysis.humanLines
             = NonBlankLabelled(loop.fileAnalyses[f].analysis, FALSE)
  /\ outcome.kind = "returned" =>
        /\ outcome.result.overallStats.aiLines + outcome.result.overallStats.humanLines
             = outcome.result.overallStats.totalLines
        /\ outcome.result.overallStats.totalLines
             = SumLines(outcome.result.files, "totalLines")
        /\ \A f \in 1..Len(outcome.result.files) :
              outcome.result.files[f].analysis.totalLines
                = NonBlank(outcome.result.files[f].analysis)

\* A RepositoryVerdict was returned after a failed file and a file with
\* blank, AI and Human lines.
CountsAddUpWitness ==
  /\ outcome.kind = "returned"
  /\ \E p \in 1..Len(events) : FinishedAt(p) /\ events[p].outcome = "failed"
  /\ \E f \in 1..Len(outcome.result.files) :
        /\ Len(outcome.result.files[f].analysis.lineAnalysis)
             > outcome.result.files[f].analysis.totalLines
        /\ outcome.result.files[f].analysis.aiLines > 0
        /\ outcome.result.files[f].analysis.humanLines > 0

\* C7: once the loop over the selected files has started the call is never
\* rejected; a file whose iteration failed (or was skipped as empty) is in no
\* FileAnalysis and in no accumulator, so the FileAnalyses are those of the
\* iterations that ended analyzed, in order, and the accumulators are the
\* sums over them; and when the call returns every selected file has been
\* fetched and its iteration has ended.
FailureIsolation ==
  /\ pc \in {"fetchFileContent", "detectLovableGeneration", "returned"} =>
        /\ outcome.kind # "error"
        /\ Len(analyzeableFiles) >= 1
  /\ [f \in 1..Len(loop.fileAnalyses) |-> loop.fileAnalyses[f].path]
       = [f \in 1..Cardinality({p \in 1..Len(events) :
                                   FinishedAt(p) /\ events[p].outcome = "analyzed"}) |->
            events[CHOOSE p \in 1..Len(events) :
                     /\ FinishedAt(p) /\ events[p].outcome = "analyzed"
                     /\ Cardinality({q \in 1..p : FinishedAt(q)
                                                   /\ events[q].outcome = "analyzed"}) = f].path]
  /\ loop.totals.totalLines = SumLines(loop.fileAnalyses, "totalLines")
  /\ loop.totals.totalAiLines = SumLines(loop.fileAnalyses, "aiLines")
  /\ loop.totals.totalHumanLines = SumLines(loop.fileAnalyses, "humanLines")
  /\ loop.totals.totalConfidence = SumConfidence(loop.fileAnalyses)
  /\ loop.totals.analyzedCount = Len(loop.fileAnalyses)
  /\ pc = "returned" =>
        /\ outcome.kind = "returned"
        /\ outcome.result.files = loop.fileAnalyses
        /\ \A k \in 1..Len(analyzeableFiles) :
              /\ \E p \in 1..Len(events) :
                    FinishedAt(p) /\ events[p].current = k
              /\ \E p \in 1..Len(events) :
                    /\ ContentFetchAt(p)
                    /\ events[p].path = Entries[analyzeableFiles[k]].path

\* The call returned after the first file failed and the second was analyzed.
FailureIsolationWitness ==
  /\ pc = "returned"
  /\ \E p, q \in 1..Len(events) :
        /\ p < q
        /\ FinishedAt(p) /\ events[p].outcome = "failed"
        /\ FinishedAt(q) /\ events[q].outcome = "analyzed"
  /\ Len(outcome.result.files) = 1

\* The filter has run: the metadata and commits requests have settled.
Filtered ==
  \/ pc \in {"fetchFileContent", "detectLovableGeneration", "returned"}
  \/ pc = "rejected" /\ \E p \in 1..Len(events) :
                           events[p].kind = "fetch" /\ events[p].what = "metadata"

\* C8: when the filter selects no file the call is rejected with the
\* no-analyzeable-files error, without a content request, without a per-file
\* progress callback and without a RepositoryVerdict.
NoAnalyzableFilesFails ==
  (Filtered /\ SelectSeq(allFiles, Analyzeable) = << >>) =>
     /\ pc = "rejected"
     /\ outcome = NoAnalyzeable
     /\ \A p \in 1..Len(events) : ~ContentFetchAt(p) /\ ~ProgressAt(p)

\* The filter rejected every file of a repository that has files.
NoAnalyzableFilesFailsWitness ==
  /\ outcome = NoAnalyzeable
  /\ allFiles # << >>
  /\ SelectSeq(allFiles, Analyzeable) = << >>

\* C9: a repositoryUrl the regular expression does not match is rejected with
\* the invalid-URL error before any request and any progress callback.
InvalidUrlFailsFirst ==
  (pc # "called" /\ ~Urls[repositoryUrl].urlMatch) =>
     /\ pc = "rejected"
     /\ outcome = InvalidUrl
     /\ events = << >>

\* A call with an unparsable URL was rejected.
InvalidUrlFailsFirstWitness ==
  /\ outcome = InvalidUrl
  /\ ~Urls[repositoryUrl].urlMatch
  /\ pc = "rejected"

\* C10 as stated: the progress callback (k, N, path of file k) comes after
\* the iteration of file k has ended, so k files have been processed then.
ProgressAfterFile ==
  \A p \in 1..Len(events) :
     ProgressAt(p) =>
        /\ \E q \in 1..(p - 1) : FinishedAt(q) /\ events[q].current = events[p].current
        /\ FinishedBefore(p) = events[p].current

\* C10 as amended: the progress callback (k, N, path of file k) comes after
\* the iteration of file k - 1 has ended and right before the content request
\* of file k, so k - 1 files have been processed then.
ProgressBeforeFile ==
  \A p \in 1..Len(events) :
     ProgressAt(p) =>
        /\ events[p].total = Len(analyzeableFiles)
        /\ events[p].current \in 1..Len(analyzeableFiles)
        /\ events[p].path = Entries[analyzeableFiles[events[p].current]].path
        /\ FinishedBefore(p) = events[p].current - 1
        /\ events[p].current > 1 =>
              FinishedAt(p - 1) /\ events[p - 1].current = events[p].current - 1
        /\ p < Len(events)
        /\ ContentFetchAt(p + 1) /\ events[p + 1].path = events[p].path
        /\ \A q \in 1..(p - 1) : ContentFetchAt(q) => events[q].path # events[p].path

\* Two files were processed, whatever their outcomes, and reported.
ProgressBeforeFileWitness ==
  /\ \E p \in 1..Len(events) : ProgressAt(p) /\ events[p].current = 2
  /\ \E p \in 1..Len(events) : FinishedAt(p) /\ events[p].current = 2

(***************************************************************************)
(* Properties of the walker and the filter                                 *)
(***************************************************************************)
\* The directories row e lies in.
RECURSIVE Ancestors(_)
Ancestors(e) ==
  IF Entries[e].parent = 0 THEN {}
  ELSE {Entries[e].parent} \cup Ancestors(Entries[e].parent)

\* Row e is, or lies in, a directory whose name is in the exclusion list.
UnderNamedDirectory(e) ==
  \E d \in Ancestors(e) \cup {e} :
     Entries[d].type = "dir" /\ Entries[d].name \in skipPatterns

\* The rows of the repository the call is about.
Tree == {e \in EntryIds : Entries[e].repo = Urls[repositoryUrl].repo}

ListingAt(p) == events[p].kind = "fetch" /\ events[p].what = "contents"

InAllFiles(e) == \E k \in 1..Len(allFiles) : allFiles[k] = e

Selected(e) == \E k \in 1..Len(analyzeableFiles) : analyzeableFiles[k] = e

\* The filter has run.
FilterDone ==
  pc \in {"fetchFileContent", "detectLovableGeneration", "returned"} \/ outcome = NoAnalyzeable

\* C11: the walker requests the contents of no directory that is, or lies
\* in, a directory named in the exclusion list, and gathers no file from one.
WalkerPruning ==
  /\ \A p \in 1..Len(events) :
        ListingAt(p) =>
           \A d \in Tree : (Entries[d].type = "dir" /\ Entries[d].path = events[p].path)
                              => ~UnderNamedDirectory(d)
  /\ \A k \in 1..Len(allFiles) : ~UnderNamedDirectory(allFiles[k])

\* The walk went two levels down, past a listed directory at the root that
\* holds a file and a directory with a file, and past one below src.
WalkerPruningWitness ==
  /\ pc = "metadata"
  /\ \E p \in 1..Len(events) : ListingAt(p) /\ events[p].path = "src/components"
  /\ \E e \in Tree : Entries[e].path = "src/api.js" /\ InAllFiles(e)
  /\ \E e \in Tree : Entries[e].path = "node_modules/dep.js" /\ ~InAllFiles(e)
  /\ \E e \in Tree : Entries[e].path = "node_modules/pkg/index.js" /\ ~InAllFiles(e)
  /\ \E e \in Tree : Entries[e].path = "src/tmp/scratch.js" /\ ~InAllFiles(e)

\* C12 as stated: a gathered file is selected exactly when its extension is
\* a code extension, no exclusion pattern matches its path, its size (from 0
\* upward) is below 1,048,576 and it has a download_url.
FilterAnySize ==
  FilterDone =>
    \A k \in 1..Len(allFiles) :
       Selected(allFiles[k]) <=>
          /\ Entries[allFiles[k]].ext \in codeExtensions
          /\ ~Entries[allFiles[k]].excluded
          /\ Entries[allFiles[k]].size < 1048576
          /\ Entries[allFiles[k]].download_url

\* C12 as amended: the same with a size from 1 upward (a file of size 0 is
\* never selected); the selected files keep their order; and of
\* src/components/ui/button.tsx, src/index.ts, README.md and
\* src/utils/helpers.ts only helpers.ts is selected.
FilterNonEmpty ==
  FilterDone =>
    /\ \A k \in 1..Len(allFiles) :
          Selected(allFiles[k]) <=>
             /\ Entries[allFiles[k]].ext \in codeExtensions
             /\ ~Entries[allFiles[k]].excluded
             /\ Entries[allFiles[k]].size >= 1
             /\ Entries[allFiles[k]].size < 1048576
             /\ Entries[allFiles[k]].download_url
    /\ \A j, k \in 1..Len(analyzeableFiles) :
          j < k => \E m, n \in 1..Len(allFiles) :
                      m < n /\ allFiles[m] = analyzeableFiles[j]
                            /\ allFiles[n] = analyzeableFiles[k]
    /\ \A e \in Tree :
          (InAllFiles(e) /\ Entries[e].path \in {"src/components/ui/button.tsx",
                                                  "src/index.ts", "README.md"})
             => ~Selected(e)
    /\ \A e \in Tree :
          (InAllFiles(e) /\ Entries[e].path = "src/utils/helpers.ts") => Selected(e)

\* The four files of the scenario and an empty code file were gathered, and
\* helpers.ts alone was selected.
FilterNonEmptyWitness ==
  /\ FilterDone
  /\ \A f \in {"src/components/ui/button.tsx", "src/index.ts", "README.md",
               "src/utils/helpers.ts"} :
        \E e \in Tree : Entries[e].path = f /\ InAllFiles(e)
  /\ \E e \in Tree : /\ InAllFiles(e) /\ Entries[e].size = 0 /\ ~Selected(e)
                     /\ Entries[e].ext \in codeExtensions /\ ~Entries[e].excluded
                     /\ Entries[e].download_url
  /\ \E e \in Tree : Entries[e].path = "src/utils/helpers.ts" /\ analyzeableFiles = <<e>>

(***************************************************************************)
(* Properties of the RepositoryAnalysis                                    *)
(***************************************************************************)
Outcomes(kind) == {p \in 1..Len(events) : FinishedAt(p) /\ events[p].outcome = kind}

\* C13: in a returned RepositoryAnalysis totalFiles is the number of files
\* the walker gathered, analyzedFiles is the number of FileAnalyses (the
\* iterations that ended analyzed), and analyzedFiles <= number of selected
\* files <= totalFiles.
FileTallies ==
  outcome.kind = "returned" =>
    /\ outcome.result.totalFiles = Len(allFiles)
    /\ outcome.result.analyzedFiles = Len(outcome.result.files)
    /\ outcome.result.analyzedFiles = Cardinality(Outcomes("analyzed"))
    /\ outcome.result.analyzedFiles <= Len(analyzeableFiles)
    /\ Len(analyzeableFiles) <= outcome.result.totalFiles
    /\ Len(analyzeableFiles)
         = Cardinality(Outcomes("analyzed") \cup Outcomes("failed") \cup Outcomes("empty"))

\* Files were gathered that the filter rejected, and of the two selected one
\* failed and one was analyzed.
FileTalliesWitness ==
  /\ outcome.kind = "returned"
  /\ Outcomes("failed") # {}
  /\ outcome.result.analyzedFiles = 1
  /\ Len(analyzeableFiles) = 2
  /\ outcome.result.totalFiles > 2

\* Mean of the per-file aiPercentage values.
RECURSIVE SumPercentage(_)
SumPercentage(files) ==
  IF files = << >> THEN <<0, 1>>
  ELSE FAdd(files[1].analysis.aiPercentage, SumPercentage(Tail(files)))

MeanPercentage(files) ==
  Frac(SumPercentage(files)[1], SumPercentage(files)[2] * Len(files))

\* C14: with at least one file analyzed, the aggregate aiPercentage is
\* 100 * (sum of aiLines) / (sum of totalLines) over the FileAnalyses and the
\* aggregate overallConfidence is the mean of their overallConfidence values.
AggregateLinesWeighted ==
  (outcome.kind = "returned" /\ Len(outcome.result.files) > 0) =>
    /\ SumLines(outcome.result.files, "totalLines") > 0
    /\ outcome.result.overallStats.aiPercentage
         = Frac(100 * SumLines(outcome.result.files, "aiLines"),
                SumLines(outcome.result.files, "totalLines"))
    /\ outcome.result.overallStats.overallConfidence
         = Frac(SumConfidence(outcome.result.files)[1],
                SumConfidence(outcome.result.files)[2] * Len(outcome.result.files))

\* Two files of different lengths were analyzed and the mean of their
\* percentages is not the aggregate percentage.
AggregateLinesWeightedWitness ==
  /\ outcome.kind = "returned"
  /\ Len(outcome.result.files) = 2
  /\ outcome.result.files[1].analysis.totalLines # outcome.result.files[2].analysis.totalLines
  /\ MeanPercentage(outcome.result.files) # outcome.result.overallStats.aiPercentage

\* The evidence texts of a returned RepositoryAnalysis.
Evidence == {outcome.result.lovableIndicators[k].indicator :
               k \in 1..Len(outcome.result.lovableIndicators)}

BotCommits == {k \in 1..Len(commits) : commits[k].bot}

MessageCommits == {k \in 1..Len(commits) : commits[k].message}

KeywordFound(f) == f \in DOMAIN markerContents /\ markerContents[f] = "lovable"

\* C15: isLovableGenerated is true exactly when at least 2 indicators were
\* triggered or a commit by the bot was found, and lovableIndicators holds
\* one entry for each triggered indicator and nothing else.
ProvenanceVerdict ==
  outcome.kind = "returned" =>
    /\ outcome.result.isLovableGenerated
         <=> (Len(outcome.result.lovableIndicators) >= 2 \/ BotCommits # {})
    /\ Cardinality(Evidence) = Len(outcome.result.lovableIndicators)
    /\ "Repository description mentions Lovable" \in Evidence <=> metadata = "lovable"
    /\ "Found commits by lovable-dev[bot]" \in Evidence <=> BotCommits # {}
    /\ "Found commits with Lovable-related messages" \in Evidence <=> MessageCommits # {}
    /\ \A f \in {"index.html", "package.json", "README.md"} :
          ("Found lovable keyword in " \o f) \in Evidence <=> KeywordFound(f)
    /\ "Project structure matches Lovable template" \in Evidence
         <=> Cardinality({s \in 1..5 : \E k \in 1..Len(allFiles) :
                                          s \in Entries[allFiles[k]].structure}) >= 3
    /\ "Found shadcn/ui components" \in Evidence
         <=> Cardinality({k \in 1..Len(allFiles) : Entries[allFiles[k]].uiComponent}) > 5
    /\ Evidence \subseteq
         {"Repository description mentions Lovable", "Found commits by lovable-dev[bot]",
          "Found commits with Lovable-related messages",
          "Found lovable keyword in index.html", "Found lovable keyword in package.json",
          "Found lovable keyword in README.md",
          "Project structure matches Lovable template", "Found shadcn/ui components"}

\* One commit by the bot is the only indicator, and the verdict is true,
\* while a marker file was read and held no keyword.
ProvenanceVerdictWitness ==
  /\ outcome.kind = "returned"
  /\ outcome.result.isLovableGenerated
  /\ Len(outcome.result.lovableIndicators) = 1
  /\ BotCommits # {}
  /\ \E f \in DOMAIN markerContents : markerContents[f] = "plain"

\* C16: the call is rejected only for an unparsable URL, a failed root
\* listing or an empty selection, whatever the metadata, commits and marker
\* requests answered; the returned files and line statistics are those of
\* the loop; null metadata, no commits and a failed marker request leave
\* their indicators untriggered.
ProvenanceFailSoft ==
  /\ pc = "rejected" =>
        \/ outcome = InvalidUrl /\ ~Urls[repositoryUrl].urlMatch
        \/ /\ outcome = [kind |-> "error", error |-> "GitHub API error"]
           /\ events[Len(events)] = Fetch("contents", "")
        \/ outcome = NoAnalyzeable /\ \A k \in 1..Len(allFiles) : ~Analyzeable(allFiles[k])
  /\ (pc = "rejected" /\ outcome = NoAnalyzeable) => analyzeableFiles = << >>
  /\ outcome.kind = "returned" =>
        /\ outcome.result.files = loop.fileAnalyses
        /\ outcome.result.overallStats.totalLines = SumLines(loop.fileAnalyses, "totalLines")
        /\ outcome.result.overallStats.aiLines = SumLines(loop.fileAnalyses, "aiLines")
        /\ outcome.result.overallStats.humanLines = SumLines(loop.fileAnalyses, "humanLines")
        /\ metadata = "null" => "Repository description mentions Lovable" \notin Evidence
        /\ commits = << >> =>
              /\ "Found commits by lovable-dev[bot]" \notin Evidence
              /\ "Found commits with Lovable-related messages" \notin Evidence
        /\ \A f \in DOMAIN markerContents :
              markerContents[f] = "failed" => ("Found lovable keyword in " \o f) \notin Evidence

\* Metadata, commits and both marker requests failed and a RepositoryAnalysis
\* with an analyzed file was returned.
ProvenanceFailSoftWitness ==
  /\ outcome.kind = "returned"
  /\ metadata = "null"
  /\ commits = << >>
  /\ DOMAIN markerContents = {"package.json", "README.md"}
  /\ \A f \in DOMAIN markerContents : markerContents[f] = "failed"
  /\ Len(outcome.result.files) = 1
  /\ outcome.result.overallStats.totalLines > 0
  /\ ~outcome.result.isLovableGenerated

(***************************************************************************)
(* Properties of the rules and of the two smoothing passes                 *)
(***************************************************************************)
\* C17: what analyzeLine returns for a non-blank line is what it returns
\* for that line alone in a freshly loaded process: every rule that matches
\* the content fires and no other, whatever lines were classified before.
RulesHistoryFree ==
  \A c \in 1..Len(returned) : \A i \in Positions(returned[c]) :
     ~Lines[returned[c].code[i]].blank =>
        returned[c].raw[i]
          = AnalyzeLine(returned[c].code[i], returned[c].language, FreshLastIndex).analysis

\* C18: analyzeLine labels a non-blank line AI exactly when its aiScore is
\* greater than its humanScore, and with equal scores the line is Human at
\* confidence 0.5 (the first line of a call, where the lastIndex values the
\* rules start from are those the call found).
TieBreak ==
  \A c \in 1..Len(returned) :
     LET l == returned[c].code[1]
         acc == Accumulate(l, returned[c].language, returned[c].before)
     IN  ~Lines[l].blank =>
           /\ returned[c].raw[1].isAI <=> acc.aiScore > acc.humanScore
           /\ acc.aiScore = acc.humanScore =>
                 ~returned[c].raw[1].isAI /\ returned[c].raw[1].confidence = <<1, 2>>

\* A line whose two scores are equal and not zero was classified.
TieBreakWitness ==
  \E c \in 1..Len(returned) :
     LET l == returned[c].code[1]
         acc == Accumulate(l, returned[c].language, returned[c].before)
     IN  /\ ~Lines[l].blank
         /\ acc.aiScore = acc.humanScore
         /\ acc.aiScore > 0
         /\ ~returned[c].raw[1].isAI

\* The non-blank positions of a call before and after position i.
NonBlankBefore(call, i) == {j \in 1..(i - 1) : ~Lines[call.code[j]].blank}

NonBlankAfter(call, i) == {j \in (i + 1)..Len(call.code) : ~Lines[call.code[j]].blank}

Nearest(S) == CHOOSE j \in S : \A k \in S : j <= k

Farthest(S) == CHOOSE j \in S : \A k \in S : j >= k

\* C19: a non-blank, non-creative line labelled Human whose nearest
\* non-blank neighbours on both sides are labelled AI ends AI with a
\* confidence of at least 0.7 and the sandwich rationale, blank lines in
\* between or not.
SandwichOverBlankLines ==
  \A c \in 1..Len(returned) : \A i \in Positions(returned[c]) :
     LET call == returned[c]
     IN  (/\ ~Lines[call.code[i]].blank
          /\ ~call.classified[i].isAI
          /\ ~Lines[call.code[i]].creative
          /\ NonBlankBefore(call, i) # {} /\ NonBlankAfter(call, i) # {}
          /\ call.classified[Farthest(NonBlankBefore(call, i))].isAI
          /\ call.classified[Nearest(NonBlankAfter(call, i))].isAI)
         => /\ call.result.lineAnalysis[i].isAI
            /\ FLeq(<<7, 10>>, call.result.lineAnalysis[i].confidence)
            /\ Contains(call.result.lineAnalysis[i].reasons, SandwichReason)

\* The first (at most two) positions of a set.
FirstTwo(S) == {j \in S : Cardinality({k \in S : k < j}) < 2}

\* C20: a non-blank, non-creative line that is Human after the sandwich
\* pass and follows three AI lines is flipped by the block pass (AI, with a
\* confidence of at least 0.6 and the block rationale) exactly when one of
\* the next two non-blank lines is AI.
LookAheadOverBlankLines ==
  \A c \in 1..Len(returned) : \A i \in 4..Len(returned[c].code) :
     LET call == returned[c]
         sandwiched == SandwichPass(call.classified, 2)
     IN  (/\ ~Lines[call.code[i]].blank
          /\ ~sandwiched[i].isAI
          /\ ~Lines[call.code[i]].creative
          /\ \A j \in (i - 3)..(i - 1) : ~Lines[call.code[j]].blank /\ sandwiched[j].isAI)
         => ((/\ call.result.lineAnalysis[i].isAI
              /\ FLeq(<<3, 5>>, call.result.lineAnalysis[i].confidence)
              /\ Contains(call.result.lineAnalysis[i].reasons, BlockReason))
             <=> \E j \in FirstTwo(NonBlankAfter(call, i)) : sandwiched[j].isAI)

(***************************************************************************)
(* Properties of the structural bias                                       *)
(***************************************************************************)
\* C21: the structure score changes no label; above 0.5 it raises the
\* confidence of every line analyzeLine labelled AI by 0.1, up to 0.95, and
\* at 0.5 or below, and for Human and blank lines, the entry is pushed as
\* analyzeLine returned it; a line the smoother flips afterwards has the
\* confidence analyzeLine gave it, raised to the floor of the pass only.
StructuralBias ==
  \A c \in 1..Len(returned) : \A i \in Positions(returned[c]) :
     LET call == returned[c]
         raw == call.raw[i]
         pushed == call.classified[i]
         final == call.result.lineAnalysis[i]
     IN  /\ pushed.isAI = raw.isAI
         /\ IF call.structureScore > 50 /\ raw.isAI
            THEN pushed = [raw EXCEPT !.confidence = FMin(FAdd(@, <<1, 10>>), <<19, 20>>)]
            ELSE pushed = raw
         /\ (~pushed.isAI /\ final.isAI) =>
               final.confidence \in {FMax(raw.confidence, <<7, 10>>),
                                     FMax(raw.confidence, <<3, 5>>)}

\* A text with a structure score above 0.5 in which an AI line below 0.85
\* was raised by 0.1, a Human line and a blank line were left alone, and a
\* Human line was flipped by the smoother.
StructuralBiasWitness ==
  \E c \in 1..Len(returned) :
     LET call == returned[c]
     IN  /\ call.structureScore > 50
         /\ \E i \in Positions(call) :
               /\ call.raw[i].isAI
               /\ FLess(call.raw[i].confidence, <<17, 20>>)
               /\ call.classified[i].confidence = FAdd(call.raw[i].confidence, <<1, 10>>)
         /\ \E i \in Positions(call) : Lines[call.code[i]].blank
         /\ \E i \in Positions(call) :
               /\ ~call.classified[i].isAI
               /\ call.result.lineAnalysis[i].isAI


(***************************************************************************)
(* Properties of the walker                                                *)
(***************************************************************************)
\* Row e lies in directory d.
Under(e, d) == d \in Ancestors(e)

\* The contents of directory d were requested.
Listed(d) == \E p \in 1..Len(events) : ListingAt(p) /\ events[p].path = Entries[d].path

\* C22: the contents of no directory whose name begins with a dot are
\* requested, and no file of such a directory is gathered, at the root of
\* the repository or below, in the list of names or not.
HiddenDirectoriesPruned ==
  \A d \in Tree :
     (Entries[d].type = "dir" /\ Entries[d].hidden) =>
        /\ ~Listed(d)
        /\ \A k \in 1..Len(allFiles) : ~Under(allFiles[k], d)

\* C23: the contents of no directory whose path is or ends with
\* components/ui are requested, and no file below such a directory is
\* gathered or counted in totalFiles.
UiDirectoriesPruned ==
  \A d \in Tree :
     (Entries[d].type = "dir" /\ Entries[d].uiDirectory) =>
        /\ ~Listed(d)
        /\ \A k \in 1..Len(allFiles) : ~Under(allFiles[k], d)
        /\ outcome.kind = "returned" =>
              outcome.result.totalFiles
                 = Cardinality({e \in Tree : InAllFiles(e) /\ ~Under(e, d)})

\* The number of directories in the path of row e.
Level(e) == Cardinality(Ancestors(e))

\* Row e is in a directory that shouldSkipDirectory tells to skip.
UnderSkipped(e) == \E d \in Ancestors(e) : ShouldSkipDirectory(d)

\* Row e is in a directory whose contents request failed.
UnderFailed(e) == \E d \in Ancestors(e) : d \in failedListings

\* The walk returned to analyzeGitHubRepository.
WalkReturned == pc \notin {"called", "getAllFiles"} /\ 0 \notin failedListings

\* C24: with the default maxDepth of 4 the walker requests the contents of
\* the root and of directories at most 3 levels below it; a directory 4
\* levels down is not requested and makes no error, its files are left out
\* and the other files are gathered, so every gathered file has at most 3
\* directories in its path; and a walk that was started returns.
DepthBound ==
  /\ \A d \in Tree : (Entries[d].type = "dir" /\ Listed(d)) => Level(d) + 1 <= 3
  /\ \A k \in 1..Len(allFiles) : Level(allFiles[k]) <= 3
  /\ WalkReturned =>
        /\ outcome.kind = "error" => outcome.error # "GitHub API error"
        /\ \A e \in Tree :
              Entries[e].type = "file" =>
                 (InAllFiles(e) <=> Level(e) <= 3 /\ ~UnderSkipped(e) /\ ~UnderFailed(e))
  /\ pc = "getAllFiles" => ENABLED GetAllFilesSettles

\* Every request of a walk succeeded: the directory a/b/c, 3 levels down,
\* was requested and its file gathered, and a/b/c/d, which no rule skips,
\* was not requested and its file is not in the list.
DepthBoundWitness ==
  /\ pc = "metadata"
  /\ failedListings = {}
  /\ \E d \in Tree : Entries[d].path = "a/b/c" /\ Listed(d)
  /\ \E e \in Tree : Entries[e].path = "a/b/c/three.txt" /\ InAllFiles(e)
  /\ \E d \in Tree : Entries[d].path = "a/b/c/d" /\ ~ShouldSkipDirectory(d) /\ ~Listed(d)
  /\ \E e \in Tree : Entries[e].path = "a/b/c/d/four.txt" /\ ~InAllFiles(e)

\* What the walk of the repository gathers when every request succeeds.
Unfailed == GetAllFiles(Urls[repositoryUrl].repo, 0, DefaultMaxDepth, {}).files

\* C25: when the contents request of a directory other than the root
\* fails, the walk returns without an error, and what it gathered is, in
\* order, what it gathers when nothing fails less the files below that
\* directory: the files of the directories above it, of the directories
\* beside it and of the entries after it are there.  The call is rejected
\* with the request's error exactly when the root's request failed.
WalkerFailSoft ==
  /\ \A d \in failedListings :
        d # 0 =>
           /\ WalkReturned
           /\ outcome.kind = "error" => outcome.error # "GitHub API error"
           /\ \A k \in 1..Len(allFiles) : ~Under(allFiles[k], d)
           /\ allFiles = SelectSeq(Unfailed, LAMBDA e : ~Under(e, d))
  /\ 0 \in failedListings <=>
        (outcome.kind = "error" /\ outcome.error = "GitHub API error")

\* The request of a/b failed: the walk returned with a/one.txt from the
\* directory above, a/s/sib.txt from the directory beside it and a/last.txt
\* and end.txt from later entries, and without a/b/two.txt.
WalkerFailSoftWitness ==
  /\ pc = "metadata"
  /\ \E d \in failedListings : Entries[d].path = "a/b"
  /\ \A path \in {"a/one.txt", "a/s/sib.txt", "a/last.txt", "end.txt"} :
        \E e \in Tree : Entries[e].path = path /\ InAllFiles(e)
  /\ \E e \in Tree : Entries[e].path = "a/b/two.txt" /\ ~InAllFiles(e)

(***************************************************************************)
(* Properties of the file filter                                           *)
(***************************************************************************)
\* C26: no gathered file named main or index with extension js, ts, jsx or
\* tsx, or named App with one of them, is selected for analysis, in a
\* directory or right below the root of the repository.
EntryPointsRejected ==
  FilterDone =>
     \A e \in Tree : (InAllFiles(e) /\ Entries[e].entryPoint) => ~Selected(e)

(***************************************************************************)
(* Properties of the two smoothing passes, by array position               *)
(***************************************************************************)
\* The array applyContextualAnalysis's second loop starts from.
Sandwiched(call) == SandwichPass(call.classified, 2)

\* C27: when the second loop flips the entry at position i, the entry at
\* i + 1 is not AI (it is blank or Human) and the entry at i + 2 is a
\* non-blank AI line; a non-blank, non-creative Human line whose entries at
\* i - 1 and i + 1 are AI is flipped by the first loop and never has the
\* block rationale, so the first loop leaves no such line Human.
BlockFlipLooksTwoAhead ==
  \A c \in 1..Len(returned) : \A i \in Positions(returned[c]) :
     LET call == returned[c]
         final == call.result.lineAnalysis
         n == Len(call.code)
     IN  /\ Contains(final[i].reasons, BlockReason) =>
               /\ i + 2 <= n
               /\ ~Sandwiched(call)[i + 1].isAI
               /\ ~Lines[call.code[i + 2]].blank
               /\ Sandwiched(call)[i + 2].isAI
         /\ (/\ 1 < i /\ i < n
             /\ ~Lines[call.code[i]].blank
             /\ ~Lines[call.code[i]].creative
             /\ ~call.classified[i].isAI
             /\ call.classified[i - 1].isAI /\ call.classified[i + 1].isAI)
            => /\ Contains(final[i].reasons, SandwichReason)
               /\ ~Contains(final[i].reasons, BlockReason)
         /\ (/\ 1 < i /\ i < n
             /\ ~Lines[call.code[i]].blank
             /\ ~Lines[call.code[i]].creative
             /\ Sandwiched(call)[i - 1].isAI /\ Sandwiched(call)[i + 1].isAI)
            => Sandwiched(call)[i].isAI

\* One text in which the first loop flipped a line between two AI lines
\* and the second loop flipped a later line whose next entry is Human and
\* whose second next entry is AI.
BlockFlipLooksTwoAheadWitness ==
  \E c \in 1..Len(returned) :
     LET call == returned[c]
         final == call.result.lineAnalysis
     IN  /\ \E i \in Positions(call) :
               /\ ~call.classified[i].isAI
               /\ Contains(final[i].reasons, SandwichReason)
         /\ \E i \in Positions(call) :
               /\ Contains(final[i].reasons, BlockReason)
               /\ ~Lines[call.code[i + 1]].blank
               /\ ~final[i + 1].isAI
               /\ final[i + 2].isAI

\* The sandwich rule decided for every position from the array as it is
\* before the loop.
SandwichSnapshot(lineAnalysis) ==
  [i \in 1..Len(lineAnalysis) |->
     IF /\ 1 < i /\ i < Len(lineAnalysis)
        /\ ~IsBlank(lineAnalysis[i].content)
        /\ ~lineAnalysis[i].isAI
        /\ lineAnalysis[i - 1].isAI /\ lineAnalysis[i + 1].isAI
        /\ ~IsCreativeHumanCode(lineAnalysis[i].content)
     THEN SandwichFlip(lineAnalysis[i])
     ELSE lineAnalysis[i]]

\* C28: the first loop of applyContextualAnalysis, which rewrites the array
\* it reads, leaves what deciding every flip from the array as it was
\* before the loop leaves: no flip rests on an earlier flip of the loop,
\* and the result returned is the second loop run on that array.
SandwichNeverCascades ==
  \A c \in 1..Len(returned) :
     LET call == returned[c]
     IN  /\ SandwichPass(call.classified, 2) = SandwichSnapshot(call.classified)
         /\ call.result.lineAnalysis = BlockPass(SandwichSnapshot(call.classified), 1, 0)
         /\ \A i \in Positions(call) :
               Contains(call.result.lineAnalysis[i].reasons, SandwichReason) =>
                  call.classified[i - 1].isAI /\ call.classified[i + 1].isAI

\* The first loop flipped two lines of one text, at i and at i + 2, each
\* between entries that were AI before the loop.
SandwichNeverCascadesWitness ==
  \E c \in 1..Len(returned) :
     LET call == returned[c]
     IN  \E i \in Positions(call) :
            /\ i + 2 < Len(call.code)
            /\ ~call.classified[i].isAI /\ ~call.classified[i + 2].isAI
            /\ call.classified[i + 1].isAI
            /\ Contains(call.result.lineAnalysis[i].reasons, SandwichReason)
            /\ Contains(call.result.lineAnalysis[i + 2].reasons, SandwichReason)

(***************************************************************************)
(* Properties of the confidence                                            *)
(***************************************************************************)
\* C29: no rule has a negative weight, and the confidence of every entry,
\* blank or not, is at least 0.5 as analyzeLine returns it, as it is pushed
\* and as it is returned; for the first line of a call the share of the
\* larger score is itself at least 0.5, so that the lower clamp of 0.1
\* does not act; and overallConfidence lies in [0.5, 0.95].
ConfidenceAtLeastHalf ==
  /\ \A r \in 1..Len(AI_PATTERNS) : AI_PATTERNS[r].weight >= 0
  /\ \A language \in Languages : \A r \in 1..Len(LANGUAGE_PATTERNS(language)) :
        LANGUAGE_PATTERNS(language)[r].weight >= 0
  /\ \A c \in 1..Len(returned) :
        LET call == returned[c]
            acc == Accumulate(call.code[1], call.language, call.before)
            larger == IF acc.aiScore > acc.humanScore THEN acc.aiScore ELSE acc.humanScore
        IN  /\ \A i \in Positions(call) :
                  /\ FLeq(<<1, 2>>, call.raw[i].confidence)
                  /\ FLeq(<<1, 2>>, call.classified[i].confidence)
                  /\ FLeq(<<1, 2>>, call.result.lineAnalysis[i].confidence)
            /\ (~Lines[call.code[1]].blank /\ acc.aiScore + acc.humanScore > 0) =>
                  /\ acc.aiScore >= 0 /\ acc.humanScore >= 0
                  /\ 2 * larger >= acc.aiScore + acc.humanScore
                  /\ call.raw[1].confidence
                        = FMin(Frac(larger, acc.aiScore + acc.humanScore), <<19, 20>>)
            /\ FLeq(<<1, 2>>, call.result.overallConfidence)
            /\ FLeq(call.result.overallConfidence, <<19, 20>>)

\* The first line of a text got both an AI score and a different Human
\* score, so that its confidence lies strictly between 0.5 and 0.95, and
\* the text has a blank line.
ConfidenceAtLeastHalfWitness ==
  \E c \in 1..Len(returned) :
     LET call == returned[c]
         acc == Accumulate(call.code[1], call.language, call.before)
     IN  /\ ~Lines[call.code[1]].blank
         /\ acc.aiScore > 0 /\ acc.humanScore > 0 /\ acc.aiScore # acc.humanScore
         /\ FLess(<<1, 2>>, call.raw[1].confidence)
         /\ FLess(call.raw[1].confidence, <<19, 20>>)
         /\ \E i \in Positions(call) : Lines[call.code[i]].blank

(***************************************************************************)
(* Properties of a call none of whose files is analysed                    *)
(***************************************************************************)
\* The progress callbacks made for file number k.
ProgressFor(k) == {p \in 1..Len(events) : ProgressAt(p) /\ events[p].current = k}

\* C30: a call whose filter selected a file is not rejected; and when every
\* iteration of its loop ended in the catch or the continue, it returns a
\* RepositoryAnalysis with analyzedFiles 0, no files, counts and
\* percentages 0 and overallConfidence 0, the progress callback having been
\* made once for each selected file.
AllFilesSkipped ==
  /\ (FilterDone /\ analyzeableFiles # << >>) => outcome.kind # "error"
  /\ (pc = "detectLovableGeneration" /\ Outcomes("analyzed") = {}) =>
        ENABLED DetectLovableGenerationSettles
  /\ (pc = "returned" /\ Outcomes("analyzed") = {}) =>
        /\ outcome.kind = "returned"
        /\ analyzeableFiles # << >>
        /\ Outcomes("failed") \cup Outcomes("empty") # {}
        /\ outcome.result.analyzedFiles = 0
        /\ outcome.result.files = << >>
        /\ outcome.result.overallStats =
              [totalLines |-> 0, aiLines |-> 0, humanLines |-> 0,
               aiPercentage |-> <<0, 1>>, humanPercentage |-> <<0, 1>>,
               overallConfidence |-> <<0, 1>>]
        /\ \A k \in 1..Len(analyzeableFiles) : Cardinality(ProgressFor(k)) = 1
        /\ \A p \in 1..Len(events) :
              ProgressAt(p) => events[p].current \in 1..Len(analyzeableFiles)

\* A call with two selected files returned: the content request of one
\* failed and the content of the other was whitespace only.
AllFilesSkippedWitness ==
  /\ pc = "returned"
  /\ Len(analyzeableFiles) = 2
  /\ Outcomes("analyzed") = {}
  /\ Outcomes("failed") # {}
  /\ Outcomes("empty") # {}
====
